---- MODULE Spec2Model ----
(***************************************************************************)
(* Model of the caption-timing core of AutomatedVideoContentGenerator      *)
(* (src/utility/captions/timed_captions_generator.py).                     *)
(*                                                                         *)
(* Python values are tagged records: [t |-> "None"], [t |-> "num", v],     *)
(* [t |-> "str", v], [t |-> "list", v], [t |-> "dict", v].  A string is a  *)
(* sequence of one-character strings, a list a sequence of values, a dict  *)
(* a function from key names to values.  Seconds are exact rationals       *)
(* [n |-> numerator, d |-> denominator] in lowest terms (Python computes   *)
(* them as binary floats; rounding is not modelled).                       *)
(***************************************************************************)
EXTENDS Integers, Sequences, FiniteSets, TLC

VARIABLES
    fn,                  \* the function the behaviour applies
    pc,                  \* "call" before fn is applied, "done" once it returned
    words,               \* splitWordsBySize: argument words
    maxCaptionSize,      \* splitWordsBySize / getCaptionsWithTime: argument
    whisper_analysis,    \* getTimestampMapping / getCaptionsWithTime: argument
    considerPunctuation, \* getCaptionsWithTime: argument
    word_position,       \* interpolateTimeFromDict: argument
    d,                   \* interpolateTimeFromDict: argument (the time index)
    search_type,         \* interpolateTimeFromDict: argument
    raw_word,            \* cleanWord: argument (word)
    interpolator_calls,  \* the calls of interpolateTimeFromDict so far
    env,                 \* what the environment of the applied function
                         \* answers: file system, speech library, ...
    events,              \* the calls the applied function made to its
                         \* environment so far, in order
    script,              \* create_fallback_search_terms /
                         \* getVideoSearchQueriesTimed: argument
    captions_timed,      \* create_fallback_search_terms /
                         \* getVideoSearchQueriesTimed: argument
    max_retries,         \* robust_audio_generation /
                         \* getVideoSearchQueriesTimed: argument
    video_segments,      \* merge_empty_intervals: argument (segments)
    result               \* the value the applied function returned

vars == <<fn, pc, words, maxCaptionSize, whisper_analysis, considerPunctuation,
          word_position, d, search_type, raw_word, interpolator_calls,
          env, events, script, captions_timed, max_retries, video_segments,
          result>>

\* The arguments and the environment: no function changes them.
args == <<fn, words, maxCaptionSize, whisper_analysis, considerPunctuation,
          word_position, d, search_type, raw_word, env, script, captions_timed,
          max_retries, video_segments>>

Returned(f) == fn = f /\ pc = "done"

\* ------------------------------------------------------------------ bounds
MaxSplitWords == 4      \* splitWordsBySize: words in the argument
MaxWordLen == 4         \* splitWordsBySize: characters in a word
MaxSplitSize == 8       \* splitWordsBySize: largest maxCaptionSize
MaxTime == 1            \* largest timestamp, in seconds
MaxTokens == 3          \* words and segment boundaries in a transcription
MaxTextLen == 5         \* characters in a transcription's text
MaxInput == 6           \* text characters plus tokens in a transcription
MaxCaptionSize == 3     \* getCaptionsWithTime: largest non-default maxCaptionSize
MaxOffset == 3          \* interpolateTimeFromDict: largest offset in the index
MaxEntries == 2         \* interpolateTimeFromDict: ranges in the index
MaxCleanLen == 4        \* cleanWord: characters in the argument
MaxFileSize == 1        \* generate_timed_captions: bytes in the audio file
MaxAlignedWords == 4    \* words in a transcription whose text matches its words
MaxSentenceLen == 5     \* characters in a text with line breaks
MaxRetries == 3         \* robust_audio_generation: max_retries
MaxScriptWords == 3     \* create_fallback_search_terms: words in the script
MaxCaptions == 2        \* create_fallback_search_terms: captions

\* ----------------------------------------------------------- Python values
PyNone == [t |-> "None"]
PyNum(n) == [t |-> "num", v |-> n]
PyStr(s) == [t |-> "str", v |-> s]
PyList(s) == [t |-> "list", v |-> s]
PyDict(f) == [t |-> "dict", v |-> f]

\* The value unused arguments and the not-yet-returned result hold.
Unset == PyNone

\* ----------------------------------------------------------------- strings
Space == " "

Range(s) == {s[i] : i \in 1..Len(s)}

\* s repeated: the word made of n copies of character c.
RECURSIVE Repeat(_, _)
Repeat(c, n) == IF n = 0 THEN <<>> ELSE <<c>> \o Repeat(c, n - 1)

\* All sequences over S of length 0..n.
SeqsUpTo(S, n) == UNION {[1..k -> S] : k \in 0..n}

\* str.isspace for one character.
Whitespace == {" ", "\t", "\n"}

\* The characters the regular expression class \w matches.
WordChars ==
    {"a", "b", "c", "d", "e", "f", "g", "h", "i", "j", "k", "l", "m", "n", "o",
     "p", "q", "r", "s", "t", "u", "v", "w", "x", "y", "z", "A", "B", "C", "D",
     "E", "F", "G", "H", "I", "J", "K", "L", "M", "N", "O", "P", "Q", "R", "S",
     "T", "U", "V", "W", "X", "Y", "Z", "0", "1", "2", "3", "4", "5", "6", "7",
     "8", "9", "_"}

Digits == <<"0", "1", "2", "3", "4", "5", "6", "7", "8", "9">>

\* str.lstrip(), str.rstrip(), str.strip(): whitespace removed at the ends.
RECURSIVE LStrip(_)
LStrip(s) ==
    IF s # <<>> /\ Head(s) \in Whitespace THEN LStrip(Tail(s)) ELSE s

RECURSIVE RStrip(_)
RStrip(s) ==
    IF s # <<>> /\ s[Len(s)] \in Whitespace
    THEN RStrip(SubSeq(s, 1, Len(s) - 1))
    ELSE s

Strip(s) == RStrip(LStrip(s))

\* str.split() without arguments: the maximal runs of non-whitespace
\* characters, in order.  cur is the run being read.
RECURSIVE SplitFrom(_, _)
SplitFrom(s, cur) ==
    IF s = <<>> THEN (IF cur = <<>> THEN <<>> ELSE <<cur>>)
    ELSE IF Head(s) \in Whitespace
         THEN (IF cur = <<>> THEN <<>> ELSE <<cur>>) \o SplitFrom(Tail(s), <<>>)
         ELSE SplitFrom(Tail(s), Append(cur, Head(s)))

Split(s) == SplitFrom(s, <<>>)

\* needle in haystack, for two strings.
Substring(needle, haystack) ==
    \E i \in 0..(Len(haystack) - Len(needle)) :
        SubSeq(haystack, i + 1, i + Len(needle)) = needle

\* Decimal digits of a natural number, as str(n) writes them.
RECURSIVE DigitsOf(_)
DigitsOf(n) ==
    IF n < 10 THEN <<Digits[n + 1]>>
    ELSE Append(DigitsOf(n \div 10), Digits[(n % 10) + 1])

\* str(x) for None, an integer and a string.
StrOf(x) ==
    CASE x.t = "str" -> x.v
      [] x.t = "None" -> <<"N", "o", "n", "e">>
      [] x.t = "num" -> IF x.v < 0 THEN <<"-">> \o DigitsOf(0 - x.v)
                        ELSE DigitsOf(x.v)

\* Truth value of a Python value (bool(x)).
Truthy(x) ==
    CASE x.t = "None" -> FALSE
      [] x.t = "num" -> x.v # 0
      [] x.t = "float" -> x.v.n # 0
      [] x.t = "str" -> x.v # <<>>
      [] x.t = "list" -> x.v # <<>>
      [] x.t = "dict" -> DOMAIN x.v # {}

\* --------------------------------------------------------------- rationals
RECURSIVE GCD(_, _)
GCD(a, b) == IF b = 0 THEN a ELSE GCD(b, a % b)

Abs(a) == IF a < 0 THEN 0 - a ELSE a

\* num / den in lowest terms, den > 0.
Rat(num, den) ==
    LET g == GCD(Abs(num), Abs(den))
        sgn == IF den < 0 THEN 0 - 1 ELSE 1
    IN [n |-> sgn * (num \div g), d |-> sgn * (den \div g)]

RatAdd(x, y) == Rat(x.n * y.d + y.n * x.d, x.d * y.d)
RatMulInt(k, x) == Rat(k * x.n, x.d)
RatDivInt(x, k) == Rat(x.n, x.d * k)
RatLe(x, y) == x.n * y.d <= y.n * x.d
RatLt(x, y) == x.n * y.d < y.n * x.d

\* A Python float that is no integer, as the exact fraction num / den.
PyFloat(num, den) == [t |-> "float", v |-> Rat(num, den)]

\* -------------------------------------------------------------- exceptions
\* The outcome of a block of code: a value, or a raised exception.
Ok(v) == [exc |-> FALSE, val |-> v]
Raise(e) == [exc |-> TRUE, val |-> e]

\* The natural number a string of decimal digits writes.
DigitValue(c) == (CHOOSE i \in 1..10 : Digits[i] = c) - 1

RECURSIVE ParseNat(_)
ParseNat(s) ==
    IF s = <<>> THEN 0
    ELSE 10 * ParseNat(SubSeq(s, 1, Len(s) - 1)) + DigitValue(s[Len(s)])

\* float(x): a number converts, a string of digits parses, any other string
\* raises ValueError, None and containers raise TypeError.
Float(x) ==
    CASE x.t = "num" -> Ok(Rat(x.v, 1))
      [] x.t = "float" -> Ok(x.v)
      [] x.t = "str" ->
            IF x.v # <<>> /\ \A i \in 1..Len(x.v) : x.v[i] \in Range(Digits)
            THEN Ok(Rat(ParseNat(x.v), 1))
            ELSE Raise("ValueError")
      [] OTHER -> Raise("TypeError")

\* ------------------------------------------------------- splitWordsBySize
\* Inner while loop of splitWordsBySize: grows caption from the remaining
\* words ws; returns <<caption, remaining words>>.  halfCaptionSize is
\* maxCaptionSize / 2 (true division), so len(caption) >= halfCaptionSize
\* is 2 * len(caption) >= maxCaptionSize.
\* Mutant of GrowCaption: a caption is closed when it reaches the limit, not
\* half of it.
RECURSIVE GrowCaptionClosedAtLimit(_, _, _)
GrowCaptionClosedAtLimit(caption, ws, maxSize) ==
    IF ws # <<>> /\ Len(caption \o <<Space>> \o Head(ws)) <= maxSize
    THEN LET caption2 == caption \o <<Space>> \o Head(ws)
             ws2 == Tail(ws)
         IN IF Len(caption2) >= maxSize /\ ws2 # <<>>
            THEN <<caption2, ws2>>
            ELSE GrowCaptionClosedAtLimit(caption2, ws2, maxSize)
    ELSE <<caption, ws>>

\* Mutant of GrowCaption: a caption is closed at a third of the limit.
RECURSIVE GrowCaptionClosedAtThird(_, _, _)
GrowCaptionClosedAtThird(caption, ws, maxSize) ==
    IF ws # <<>> /\ Len(caption \o <<Space>> \o Head(ws)) <= maxSize
    THEN LET caption2 == caption \o <<Space>> \o Head(ws)
             ws2 == Tail(ws)
         IN IF 3 * Len(caption2) >= maxSize /\ ws2 # <<>>
            THEN <<caption2, ws2>>
            ELSE GrowCaptionClosedAtThird(caption2, ws2, maxSize)
    ELSE <<caption, ws>>

\* Mutant of GrowCaption: the word is appended without the space.
RECURSIVE GrowCaptionNoSpace(_, _, _)
GrowCaptionNoSpace(caption, ws, maxSize) ==
    IF ws # <<>> /\ Len(caption \o <<Space>> \o Head(ws)) <= maxSize
    THEN LET caption2 == caption \o Head(ws)
             ws2 == Tail(ws)
         IN IF 2 * Len(caption2) >= maxSize /\ ws2 # <<>>
            THEN <<caption2, ws2>>
            ELSE GrowCaptionNoSpace(caption2, ws2, maxSize)
    ELSE <<caption, ws>>

\* Mutant of GrowCaption: a caption is filled to the limit, never closed at
\* half of it.
RECURSIVE GrowCaptionGreedy(_, _, _)
GrowCaptionGreedy(caption, ws, maxSize) ==
    IF ws # <<>> /\ Len(caption \o <<Space>> \o Head(ws)) <= maxSize
    THEN GrowCaptionGreedy(caption \o <<Space>> \o Head(ws), Tail(ws), maxSize)
    ELSE <<caption, ws>>

\* Mutant of GrowCaption: the fit test forgets the word about to be appended.
RECURSIVE GrowCaptionNoFit(_, _, _)
GrowCaptionNoFit(caption, ws, maxSize) ==
    IF ws # <<>> /\ Len(caption) <= maxSize
    THEN LET caption2 == caption \o <<Space>> \o Head(ws)
             ws2 == Tail(ws)
         IN IF 2 * Len(caption2) >= maxSize /\ ws2 # <<>>
            THEN <<caption2, ws2>>
            ELSE GrowCaptionNoFit(caption2, ws2, maxSize)
    ELSE <<caption, ws>>

RECURSIVE GrowCaption(_, _, _)
GrowCaption(caption, ws, maxSize) ==
    IF ws # <<>> /\ Len(caption \o <<Space>> \o Head(ws)) <= maxSize
    THEN LET caption2 == caption \o <<Space>> \o Head(ws)
             ws2 == Tail(ws)
         IN IF 2 * Len(caption2) >= maxSize /\ ws2 # <<>>
            THEN <<caption2, ws2>>
            ELSE GrowCaption(caption2, ws2, maxSize)
    ELSE <<caption, ws>>

RECURSIVE splitWordsBySize(_, _)
splitWordsBySize(ws, maxSize) ==
    IF ws = <<>> THEN <<>>
    ELSE LET g == GrowCaption(Head(ws), Tail(ws), maxSize)
         IN <<g[1]>> \o splitWordsBySize(g[2], maxSize)

\* ---------------------------------------------------- getTimestampMapping
\* A dict with tuple keys (locationToTimestamp) is a sequence of entries
\* [key |-> <<start_index, end_index>>, val |-> [start |-> s, end |-> e]]
\* in insertion order, the order Python iterates a dict in.
DictPut(m, k, v) ==
    IF \E i \in 1..Len(m) : m[i].key = k
    THEN [i \in 1..Len(m) |-> IF m[i].key = k THEN [key |-> k, val |-> v] ELSE m[i]]
    ELSE Append(m, [key |-> k, val |-> v])

\* The string a word entry carries: 'text' first, else 'word', else None;
\* str(...).strip() of it (lines 199-203).  <<>> stands for None and for "".
WordText(word) ==
    IF "text" \in DOMAIN word.v THEN Strip(StrOf(word.v["text"]))
    ELSE IF "word" \in DOMAIN word.v THEN Strip(StrOf(word.v["word"]))
    ELSE <<>>

\* Mutant of MapWord: a skipped word still takes its separating space.
MapWordSkipAdvancing(word, st) ==
    IF word.t # "dict" THEN Ok(st)
    ELSE LET word_text == WordText(word)
         IN IF word_text = <<>> \/ "start" \notin DOMAIN word.v
                                \/ "end" \notin DOMAIN word.v
            THEN Ok([st EXCEPT !.index = @ + 1])
            ELSE LET fs == Float(word.v["start"])
                     fe == Float(word.v["end"])
                     start_index == st.index
                     end_index == st.index + Len(word_text)
                 IN IF fs.exc THEN fs
                    ELSE IF fe.exc THEN fe
                    ELSE Ok([index |-> end_index + 1,
                             map |-> DictPut(st.map, <<start_index, end_index>>,
                                             [start |-> fs.val, end |-> fe.val])])

\* Mutant of MapWord: the cursor advances without the separating space.
MapWordNoSeparator(word, st) ==
    IF word.t # "dict" THEN Ok(st)
    ELSE LET word_text == WordText(word)
         IN IF word_text = <<>> \/ "start" \notin DOMAIN word.v
                                \/ "end" \notin DOMAIN word.v
            THEN Ok(st)
            ELSE LET fs == Float(word.v["start"])
                     fe == Float(word.v["end"])
                     start_index == st.index
                     end_index == st.index + Len(word_text)
                 IN IF fs.exc THEN fs
                    ELSE IF fe.exc THEN fe
                    ELSE Ok([index |-> end_index,
                             map |-> DictPut(st.map, <<start_index, end_index>>,
                                             [start |-> fs.val, end |-> fe.val])])

\* One iteration of the word loop (lines 195-216) on state
\* st = [index, map]: the outcome is the next state or a raised exception.
MapWord(word, st) ==
    IF word.t # "dict" THEN Ok(st)
    ELSE LET word_text == WordText(word)
         IN IF word_text = <<>> \/ "start" \notin DOMAIN word.v
                                \/ "end" \notin DOMAIN word.v
            THEN Ok(st)
            ELSE LET fs == Float(word.v["start"])
                     fe == Float(word.v["end"])
                     start_index == st.index
                     end_index == st.index + Len(word_text)
                 IN IF fs.exc THEN fs
                    ELSE IF fe.exc THEN fe
                    ELSE Ok([index |-> end_index + 1,
                             map |-> DictPut(st.map, <<start_index, end_index>>,
                                             [start |-> fs.val, end |-> fe.val])])

\* for word_idx, word in enumerate(words) (line 194): r is the outcome of
\* the iterations so far, an exception ends the loop.
RECURSIVE MapWords(_, _)
MapWords(ws, r) ==
    IF r.exc \/ ws = <<>> THEN r
    ELSE MapWords(Tail(ws), MapWord(Head(ws), r.val))

WordsKey == <<"w", "o", "r", "d", "s">>

\* One iteration of the segment loop (lines 187-216).  'words' not in
\* segment is a key test on a dict, a membership test on a list, a
\* substring test on a string, and a TypeError on None or a number; a
\* string or list that does hold 'words' cannot be indexed by it.
MapSegment(segment, st) ==
    CASE segment.t = "dict" ->
            IF "words" \notin DOMAIN segment.v \/ ~Truthy(segment.v["words"])
            THEN Ok(st)
            ELSE LET ws == segment.v["words"]
                 IN CASE ws.t = "list" -> MapWords(ws.v, Ok(st))
                      [] ws.t = "num" -> Raise("TypeError")
                      [] OTHER -> Ok(st)
      [] segment.t = "list" ->
            IF PyStr(WordsKey) \in Range(segment.v) THEN Raise("TypeError")
            ELSE Ok(st)
      [] segment.t = "str" ->
            IF Substring(WordsKey, segment.v) THEN Raise("TypeError")
            ELSE Ok(st)
      [] OTHER -> Raise("TypeError")

\* for seg_idx, segment in enumerate(segments) (line 186): r is the outcome
\* of the iterations so far, an exception ends the loop.
RECURSIVE MapSegments(_, _)
MapSegments(segs, r) ==
    IF r.exc \/ segs = <<>> THEN r
    ELSE MapSegments(Tail(segs), MapSegment(Head(segs), r.val))

\* return wordLocationToTime (line 219), unless the loops raised.
ReturnMap(r) == IF r.exc THEN r ELSE Ok(r.val.map)

\* The try block of getTimestampMapping (lines 175-219), for a dict
\* whisper_analysis whose 'segments', when present, is a list, None or a
\* number (len() of the last two raises TypeError).
getTimestampMappingBody(wa) ==
    IF "segments" \notin DOMAIN wa.v THEN Ok(<<>>)
    ELSE LET segments == wa.v["segments"]
         IN IF segments.t # "list" THEN Raise("TypeError")
            ELSE ReturnMap(MapSegments(segments.v, Ok([index |-> 0, map |-> <<>>])))

\* except Exception: return {} (lines 221-224).
EmptyOnError(r) == IF r.exc THEN <<>> ELSE r.val

\* getTimestampMapping: any exception of the body gives {} (lines 221-224).
getTimestampMapping(wa) == EmptyOnError(getTimestampMappingBody(wa))

\* ------------------------------------------------ interpolateTimeFromDict
\* timestamps.get(search_type): the value, or None.
DictGet(rec, k) == IF k \in DOMAIN rec THEN rec[k] ELSE PyNone

\* Mutant of ClosestPreceding: no second loop, a position outside every
\* range finds nothing.
ExactMatchOnly(pos, m, search) == PyNone

\* Mutant of ClosestPreceding: the farthest preceding range wins.
FarthestPreceding(pos, m, search) ==
    LET before == {i \in 1..Len(m) : pos >= m[i].key[2]}
    IN IF before = {} THEN PyNone
       ELSE LET best == CHOOSE i \in before :
                          \A j \in before :
                              \/ pos - m[i].key[2] > pos - m[j].key[2]
                              \/ pos - m[i].key[2] = pos - m[j].key[2] /\ i <= j
            IN DictGet(m[best].val, search)

\* Second loop (lines 239-247): the first entry, in iteration order, of
\* least distance word_position - end among those with
\* word_position >= end; closest_time stays None when there is none.
ClosestPreceding(pos, m, search) ==
    LET before == {i \in 1..Len(m) : pos >= m[i].key[2]}
    IN IF before = {} THEN PyNone
       ELSE LET best == CHOOSE i \in before :
                          \A j \in before :
                              \/ pos - m[i].key[2] < pos - m[j].key[2]
                              \/ pos - m[i].key[2] = pos - m[j].key[2] /\ i <= j
            IN DictGet(m[best].val, search)

interpolateTimeFromDict(pos, m, search) ==
    IF m = <<>> THEN PyNone
    ELSE LET exact == {i \in 1..Len(m) : m[i].key[1] <= pos /\ pos < m[i].key[2]}
         IN IF exact # {}
            THEN DictGet(m[CHOOSE i \in exact : \A j \in exact : i <= j].val, search)
            ELSE ClosestPreceding(pos, m, search)

\* ----------------------------------------------------- getCaptionsWithTime
\* cleanWord: re.sub(r'[^\w\s\-_"\'\']', '', word) keeps word characters,
\* whitespace, hyphen, underscore and the two quotation marks.
KeptByCleanWord(c) == c \in WordChars \cup Whitespace \cup {"-", "_", "\"", "'"}

\* Mutant of cleanWord: only the first character to remove is removed
\* (re.sub with count=1).
cleanWordOnce(w) ==
    IF \A i \in 1..Len(w) : KeptByCleanWord(w[i]) THEN w
    ELSE LET i == CHOOSE i \in 1..Len(w) :
                      /\ ~KeptByCleanWord(w[i])
                      /\ \A j \in 1..(i - 1) : KeptByCleanWord(w[j])
         IN SubSeq(w, 1, i - 1) \o SubSeq(w, i + 1, Len(w))

cleanWord(w) == SelectSeq(w, KeptByCleanWord)

\* re.split(r'(?<=[.!?]) +', text): text is cut at every run of spaces that
\* follows '.', '!' or '?'; the run is dropped.  cur is the piece being read.
SentenceEnd == {".", "!", "?"}

RECURSIVE DropSpaces(_)
DropSpaces(s) == IF s # <<>> /\ Head(s) = Space THEN DropSpaces(Tail(s)) ELSE s

RECURSIVE SplitSentencesFrom(_, _)
SplitSentencesFrom(s, cur) ==
    IF s = <<>> THEN <<cur>>
    ELSE IF Head(s) = Space /\ cur # <<>> /\ cur[Len(cur)] \in SentenceEnd
         THEN <<cur>> \o SplitSentencesFrom(DropSpaces(s), <<>>)
         ELSE SplitSentencesFrom(Tail(s), Append(cur, Head(s)))

SplitSentences(text) == SplitSentencesFrom(text, <<>>)

\* [word for sentence in sentences
\*       for word in splitWordsBySize(sentence.split(), maxCaptionSize)]
RECURSIVE ChunkSentences(_, _)
ChunkSentences(sentences, maxSize) ==
    IF sentences = <<>> THEN <<>>
    ELSE splitWordsBySize(Split(Head(sentences)), maxSize)
             \o ChunkSentences(Tail(sentences), maxSize)

\* Lines 279-284: the caption chunks of the stripped text.
CaptionChunks(text, maxSize, punct) ==
    IF punct THEN ChunkSentences(SplitSentences(text), maxSize)
    ELSE splitWordsBySize(Split(text), maxSize)

DefaultDuration == 10

\* Mutant of TotalDuration: the end of the first segment is taken.
TotalDurationFirst(wa) ==
    LET default == Rat(DefaultDuration, 1)
    IN IF "segments" \notin DOMAIN wa.v \/ ~Truthy(wa.v["segments"])
       THEN default
       ELSE LET segments == wa.v["segments"]
            IN IF segments.t # "list" THEN default
               ELSE LET last_segment == segments.v[1]
                    IN IF last_segment.t # "dict" THEN default
                       ELSE IF "end" \in DOMAIN last_segment.v
                                 /\ Truthy(last_segment.v["end"])
                            THEN LET f == Float(last_segment.v["end"])
                                 IN IF f.exc THEN default ELSE f.val
                            ELSE default

\* Lines 293-300: the total duration of the estimated timing.  Every
\* exception of the try block is one of those it catches, which leaves the
\* default: segments[-1] of a non-list, 'end' in a non-dict last segment
\* (or no 'end' in it), float() of a non-number.
TotalDuration(wa) ==
    LET default == Rat(DefaultDuration, 1)
    IN IF "segments" \notin DOMAIN wa.v \/ ~Truthy(wa.v["segments"])
       THEN default
       ELSE LET segments == wa.v["segments"]
            IN IF segments.t # "list" THEN default
               ELSE LET last_segment == segments.v[Len(segments.v)]
                    IN IF last_segment.t # "dict" THEN default
                       ELSE IF "end" \in DOMAIN last_segment.v
                                 /\ Truthy(last_segment.v["end"])
                            THEN LET f == Float(last_segment.v["end"])
                                 IN IF f.exc THEN default ELSE f.val
                            ELSE default

\* Mutant of EntryText: the chunk is never cleaned.
EntryTextNeverCleaned(chunk, punct) == Strip(chunk)

\* Mutant of EntryText: the chunk is cleaned also when punctuation is kept.
EntryTextAlwaysCleaned(chunk, punct) == Strip(cleanWord(chunk))

\* The text of an entry: cleaned unless punctuation is kept, then stripped
\* (lines 309-312 and 348-351).
EntryText(chunk, punct) == Strip(IF punct THEN chunk ELSE cleanWord(chunk))

\* Mutant of EstimatedCaptions: an entry is appended whatever cleaning left.
RECURSIVE EstimatedCaptionsKeepingEmpty(_, _, _, _)
EstimatedCaptionsKeepingEmpty(chunks, i, duration_per_caption, punct) ==
    IF i > Len(chunks) THEN <<>>
    ELSE LET start_time == RatMulInt(i - 1, duration_per_caption)
             end_time == RatMulInt(i, duration_per_caption)
             caption_text == EntryText(chunks[i], punct)
             rest == EstimatedCaptionsKeepingEmpty(chunks, i + 1,
                                                   duration_per_caption, punct)
         IN IF Strip(chunks[i]) # <<>>
            THEN <<<<<<start_time, end_time>>, caption_text>>>> \o rest
            ELSE rest

\* Mutant of EstimatedCaptions: the slices are counted from 1.
RECURSIVE EstimatedCaptionsFromOne(_, _, _, _)
EstimatedCaptionsFromOne(chunks, i, duration_per_caption, punct) ==
    IF i > Len(chunks) THEN <<>>
    ELSE LET start_time == RatMulInt(i, duration_per_caption)
             end_time == RatMulInt(i + 1, duration_per_caption)
             caption_text == EntryText(chunks[i], punct)
             rest == EstimatedCaptionsFromOne(chunks, i + 1,
                                              duration_per_caption, punct)
         IN IF Strip(chunks[i]) # <<>> /\ caption_text # <<>>
            THEN <<<<<<start_time, end_time>>, caption_text>>>> \o rest
            ELSE rest

\* Lines 304-314: the estimated-timing loop from chunk i (1-based here, so
\* Python's i is i - 1).
RECURSIVE EstimatedCaptions(_, _, _, _)
EstimatedCaptions(chunks, i, duration_per_caption, punct) ==
    IF i > Len(chunks) THEN <<>>
    ELSE LET start_time == RatMulInt(i - 1, duration_per_caption)
             end_time == RatMulInt(i, duration_per_caption)
             caption_text == EntryText(chunks[i], punct)
             rest == EstimatedCaptions(chunks, i + 1, duration_per_caption, punct)
         IN IF Strip(chunks[i]) # <<>> /\ caption_text # <<>>
            THEN <<<<<<start_time, end_time>>, caption_text>>>> \o rest
            ELSE rest

SecondsPerChar == Rat(1, 10)

\* Mutant of TimedStep: start_time advances past a chunk that is not emitted.
TimedStepAlwaysAdvancing(chunks, i, index, punct, st) ==
    LET caption_text == Strip(chunks[i])
    IN IF caption_text = <<>> THEN st
       ELSE LET text_position ==
                    IF i = 1 THEN Len(caption_text)
                    ELSE st.text_position + Len(caption_text) + 1
                found == interpolateTimeFromDict(text_position, index, "end")
                synthetic == RatMulInt(Len(caption_text), SecondsPerChar)
                end_time ==
                    IF found # PyNone THEN found
                    ELSE IF st.CaptionsPairs # <<>>
                         THEN RatAdd(st.CaptionsPairs[Len(st.CaptionsPairs)][1][2],
                                     synthetic)
                         ELSE synthetic
                cleaned == EntryText(caption_text, punct)
            IN IF cleaned # <<>>
               THEN [text_position |-> text_position,
                     start_time |-> end_time,
                     CaptionsPairs |->
                         Append(st.CaptionsPairs,
                                <<<<st.start_time, end_time>>, cleaned>>)]
               ELSE [st EXCEPT !.text_position = text_position,
                               !.start_time = end_time]

\* Mutant of TimedStep: start_time is never advanced.
TimedStepFromZero(chunks, i, index, punct, st) ==
    LET caption_text == Strip(chunks[i])
    IN IF caption_text = <<>> THEN st
       ELSE LET text_position ==
                    IF i = 1 THEN Len(caption_text)
                    ELSE st.text_position + Len(caption_text) + 1
                found == interpolateTimeFromDict(text_position, index, "end")
                synthetic == RatMulInt(Len(caption_text), SecondsPerChar)
                end_time ==
                    IF found # PyNone THEN found
                    ELSE IF st.CaptionsPairs # <<>>
                         THEN RatAdd(st.CaptionsPairs[Len(st.CaptionsPairs)][1][2],
                                     synthetic)
                         ELSE synthetic
                cleaned == EntryText(caption_text, punct)
            IN IF cleaned # <<>>
               THEN [text_position |-> text_position,
                     start_time |-> st.start_time,
                     CaptionsPairs |->
                         Append(st.CaptionsPairs,
                                <<<<st.start_time, end_time>>, cleaned>>)]
               ELSE [st EXCEPT !.text_position = text_position]

\* Mutant of TimedStep: the chunk's end is looked up among the start times.
TimedStepSearchingStart(chunks, i, index, punct, st) ==
    LET caption_text == Strip(chunks[i])
    IN IF caption_text = <<>> THEN st
       ELSE LET text_position ==
                    IF i = 1 THEN Len(caption_text)
                    ELSE st.text_position + Len(caption_text) + 1
                found == interpolateTimeFromDict(text_position, index, "start")
                synthetic == RatMulInt(Len(caption_text), SecondsPerChar)
                end_time ==
                    IF found # PyNone THEN found
                    ELSE IF st.CaptionsPairs # <<>>
                         THEN RatAdd(st.CaptionsPairs[Len(st.CaptionsPairs)][1][2],
                                     synthetic)
                         ELSE synthetic
                cleaned == EntryText(caption_text, punct)
            IN IF cleaned # <<>>
               THEN [text_position |-> text_position,
                     start_time |-> end_time,
                     CaptionsPairs |->
                         Append(st.CaptionsPairs,
                                <<<<st.start_time, end_time>>, cleaned>>)]
               ELSE [st EXCEPT !.text_position = text_position]

\* Lines 320-354: one iteration of the timed loop on state
\* st = [text_position, start_time, CaptionsPairs], for chunk i (1-based).
TimedStep(chunks, i, index, punct, st) ==
    LET caption_text == Strip(chunks[i])
    IN IF caption_text = <<>> THEN st
       ELSE LET text_position ==
                    IF i = 1 THEN Len(caption_text)
                    ELSE st.text_position + Len(caption_text) + 1
                found == interpolateTimeFromDict(text_position, index, "end")
                synthetic == RatMulInt(Len(caption_text), SecondsPerChar)
                end_time ==
                    IF found # PyNone THEN found
                    ELSE IF st.CaptionsPairs # <<>>
                         THEN RatAdd(st.CaptionsPairs[Len(st.CaptionsPairs)][1][2],
                                     synthetic)
                         ELSE synthetic
                cleaned == EntryText(caption_text, punct)
            IN IF cleaned # <<>>
               THEN [text_position |-> text_position,
                     start_time |-> end_time,
                     CaptionsPairs |->
                         Append(st.CaptionsPairs,
                                <<<<st.start_time, end_time>>, cleaned>>)]
               ELSE [st EXCEPT !.text_position = text_position]

RECURSIVE TimedCaptions(_, _, _, _, _)
TimedCaptions(chunks, i, index, punct, st) ==
    IF i > Len(chunks) THEN st.CaptionsPairs
    ELSE TimedCaptions(chunks, i + 1, index, punct,
                       TimedStep(chunks, i, index, punct, st))

\* Mutant of IsBlankText: only the stripped string is tested.
IsBlankTextUnguarded(text) == Strip(StrOf(text)) = <<>>

\* Line 263: not text or not str(text).strip().
IsBlankText(text) == ~Truthy(text) \/ Strip(StrOf(text)) = <<>>

\* Lines 289-357: the entries for the index wordLocationToTime and the
\* chunks (the list the code calls words), estimated when the index is
\* empty.
CaptionsPairsOf(wa, wordLocationToTime, chunks, punct) ==
    IF wordLocationToTime = <<>>
    THEN LET total_duration == TotalDuration(wa)
             duration_per_caption ==
                 IF chunks # <<>> THEN RatDivInt(total_duration, Len(chunks))
                 ELSE Rat(1, 1)
         IN Ok(EstimatedCaptions(chunks, 1, duration_per_caption, punct))
    ELSE Ok(TimedCaptions(chunks, 1, wordLocationToTime, punct,
                          [text_position |-> 0,
                           start_time |-> Rat(0, 1),
                           CaptionsPairs |-> <<>>]))

\* The try block of getCaptionsWithTime (lines 253-357).
getCaptionsWithTimeBody(wa, maxSize, punct) ==
    IF ~Truthy(wa) \/ wa.t # "dict" THEN Raise("ValueError")
    ELSE IF "text" \notin DOMAIN wa.v THEN Raise("ValueError")
    ELSE IF IsBlankText(wa.v["text"]) THEN Ok(<<>>)
    ELSE CaptionsPairsOf(wa, getTimestampMapping(wa),
                         CaptionChunks(Strip(StrOf(wa.v["text"])), maxSize, punct),
                         punct)

\* What the caller of getCaptionsWithTime gets: the returned list, or the
\* exception that escapes.
Returns(v) == [raised |-> FALSE, value |-> v]
Propagates(e) == [raised |-> TRUE, value |-> e]

\* except Exception: return [] (lines 359-362).
EmptyListOnError(r) == IF r.exc THEN Returns(<<>>) ELSE Returns(r.val)

\* No except clause: the exception reaches the caller.
Uncaught(r) == IF r.exc THEN Propagates(r.val) ELSE Returns(r.val)

\* Mutant of getCaptionsWithTime: no except clause.
getCaptionsWithTimeUncaught(wa, maxSize, punct) ==
    Uncaught(getCaptionsWithTimeBody(wa, maxSize, punct))

\* getCaptionsWithTime: except Exception returns [] (lines 359-362).
getCaptionsWithTime(wa, maxSize, punct) ==
    EmptyListOnError(getCaptionsWithTimeBody(wa, maxSize, punct))

\* Mutant of TimedLoopCalls: the cursor does not count the joining space.
RECURSIVE TimedLoopCallsWithoutSpace(_, _, _, _)
TimedLoopCallsWithoutSpace(chunks, i, index, text_position) ==
    IF i > Len(chunks) THEN <<>>
    ELSE IF Strip(chunks[i]) = <<>>
    THEN TimedLoopCallsWithoutSpace(chunks, i + 1, index, text_position)
    ELSE <<[position |-> text_position + Len(Strip(chunks[i])),
            index |-> index]>>
         \o TimedLoopCallsWithoutSpace(chunks, i + 1, index,
                                       text_position + Len(Strip(chunks[i])))

\* The calls of interpolateTimeFromDict a call of getCaptionsWithTime makes
\* (line 332), each with its position and index arguments: one for every
\* chunk of the timed loop that is not blank (lines 320-332), from chunk i
\* with the cursor at text_position.
RECURSIVE TimedLoopCalls(_, _, _, _)
TimedLoopCalls(chunks, i, index, text_position) ==
    IF i > Len(chunks) THEN <<>>
    ELSE IF Strip(chunks[i]) = <<>>
    THEN TimedLoopCalls(chunks, i + 1, index, text_position)
    ELSE <<[position |-> IF i = 1 THEN Len(Strip(chunks[i]))
                         ELSE text_position + Len(Strip(chunks[i])) + 1,
            index |-> index]>>
         \o TimedLoopCalls(chunks, i + 1, index,
                           IF i = 1 THEN Len(Strip(chunks[i]))
                           ELSE text_position + Len(Strip(chunks[i])) + 1)

\* Mutant of CallsFromIndex: the timed loop runs whatever the index holds.
CallsFromAnyIndex(wordLocationToTime, chunks) ==
    TimedLoopCalls(chunks, 1, wordLocationToTime, 0)

\* Lines 289-317: with an empty index the estimated timing returns at line
\* 317, before the timed loop.
CallsFromIndex(wordLocationToTime, chunks) ==
    IF wordLocationToTime = <<>> THEN <<>>
    ELSE TimedLoopCalls(chunks, 1, wordLocationToTime, 0)

\* No call is made when validation raises (lines 256-260) or the text is
\* blank (line 265).
InterpolatorCalls(wa, maxSize, punct) ==
    IF ~Truthy(wa) \/ wa.t # "dict" THEN <<>>
    ELSE IF "text" \notin DOMAIN wa.v THEN <<>>
    ELSE IF IsBlankText(wa.v["text"]) THEN <<>>
    ELSE CallsFromIndex(getTimestampMapping(wa),
                        CaptionChunks(Strip(StrOf(wa.v["text"])), maxSize, punct))

\* ------------------------------------------------- specification: SpecSplit
\* Non-empty words: a letter repeated 1..MaxWordLen times.
SplitWordSet == {Repeat(c, n) : c \in {"a", "b"}, n \in 1..MaxWordLen}

InitSplit ==
    /\ fn = "splitWordsBySize"
    /\ pc = "call"
    /\ words \in SeqsUpTo(SplitWordSet, MaxSplitWords)
    /\ maxCaptionSize \in 0..MaxSplitSize
    /\ whisper_analysis = Unset
    /\ considerPunctuation = FALSE
    /\ word_position = 0
    /\ d = <<>>
    /\ search_type = "end"
    /\ raw_word = <<>>
    /\ interpolator_calls = <<>>
    /\ env = Unset
    /\ events = <<>>
    /\ script = <<>>
    /\ captions_timed = <<>>
    /\ max_retries = 0
    /\ video_segments = <<>>
    /\ result = Unset

CallSplitWordsBySize ==
    /\ fn = "splitWordsBySize"
    /\ pc = "call"
    /\ result' = splitWordsBySize(words, maxCaptionSize)
    /\ pc' = "done"
    /\ UNCHANGED <<args, interpolator_calls, events>>

NextSplit == CallSplitWordsBySize

SpecSplit == InitSplit /\ [][NextSplit]_vars

\* ------------------------------------------------------- transcriptions
\* The inputs: a transcription is written as a sequence of tokens read left
\* to right.  A "word" token adds its word entry w to the segment being
\* read; a "close" token ends that segment, with the words read so far
\* (possibly none) under 'words' and the fields of w beside it; a "bare"
\* token ends it and adds a segment w that has no 'words'.  Words left at
\* the end form a last segment.  A segment's 'start' and 'text' are left
\* out: no code reads them.
WordTok(w) == [k |-> "word", w |-> w]
CloseTok(fields) == [k |-> "close", w |-> fields]
BareTok(fields) == [k |-> "bare", w |-> fields]

SegmentOf(ws, fields) == PyDict(fields @@ [words |-> PyList(ws)])

RECURSIVE BuildSegments(_, _)
BuildSegments(toks, cur) ==
    IF toks = <<>>
    THEN (IF cur = <<>> THEN <<>> ELSE <<SegmentOf(cur, <<>>)>>)
    ELSE LET tok == Head(toks)
         IN CASE tok.k = "word" ->
                    BuildSegments(Tail(toks), Append(cur, tok.w))
              [] tok.k = "close" ->
                    <<SegmentOf(cur, tok.w)>> \o BuildSegments(Tail(toks), <<>>)
              [] tok.k = "bare" ->
                    (IF cur = <<>> THEN <<>> ELSE <<SegmentOf(cur, <<>>)>>)
                        \o <<PyDict(tok.w)>> \o BuildSegments(Tail(toks), <<>>)

Segments(toks) == PyList(BuildSegments(toks, <<>>))

Times == 0..MaxTime

\* A well-formed word entry under key 'text' or 'word'.
Word(key, chars, s, e) ==
    PyDict((key :> PyStr(chars)) @@ [start |-> PyNum(s), end |-> PyNum(e)])

NotANumber == PyStr(<<"x">>)

\* ------------------------------------------------- specification: SpecIndex
\* Word entries of getTimestampMapping's argument: timestamped words (one
\* of them padded, under the other key name), and the entries the code
\* skips or fails on.
UsableWords ==
    {Word("text", <<"a">>, s, e) : s \in Times, e \in Times}
        \cup {Word("text", <<"b", "c">>, s, e) : s \in Times, e \in Times}
        \cup {Word("word", <<" ", "a">>, s, e) : s \in Times, e \in Times}

StartNotAfterEnd(w) == w.v["start"].v <= w.v["end"].v

SkippedWords ==
    { Word("text", <<" ">>, 0, MaxTime),
      Word("text", <<>>, 0, MaxTime),
      PyDict([text |-> PyStr(<<"a">>), end |-> PyNum(MaxTime)]),
      PyDict([text |-> PyStr(<<"a">>), start |-> PyNum(0)]),
      PyDict([start |-> PyNum(0), end |-> PyNum(MaxTime)]) }

MalformedWords ==
    { PyNone,
      PyDict([text |-> PyStr(<<"a">>), start |-> NotANumber, end |-> PyNum(MaxTime)]) }

IndexTokens ==
    {WordTok(w) : w \in {u \in UsableWords : StartNotAfterEnd(u)}
                          \cup SkippedWords \cup MalformedWords}
        \cup {CloseTok(<<>>), BareTok(<<>>)}

\* The transcription of the words "Hello" and "world".
HelloWorld ==
    PyDict([segments |-> PyList(<<SegmentOf(
        <<Word("text", <<"H", "e", "l", "l", "o">>, 0, 1),
          Word("text", <<"w", "o", "r", "l", "d">>, 1, 2)>>, <<>>)>>)])

InitIndex ==
    /\ fn = "getTimestampMapping"
    /\ pc = "call"
    /\ \/ \E toks \in SeqsUpTo(IndexTokens, MaxTokens) :
             whisper_analysis = PyDict([segments |-> Segments(toks)])
       \/ whisper_analysis \in {HelloWorld, PyDict(<<>>)}
    /\ words = <<>>
    /\ maxCaptionSize = 0
    /\ considerPunctuation = FALSE
    /\ word_position = 0
    /\ d = <<>>
    /\ search_type = "end"
    /\ raw_word = <<>>
    /\ interpolator_calls = <<>>
    /\ env = Unset
    /\ events = <<>>
    /\ script = <<>>
    /\ captions_timed = <<>>
    /\ max_retries = 0
    /\ video_segments = <<>>
    /\ result = Unset

CallGetTimestampMapping ==
    /\ fn = "getTimestampMapping"
    /\ pc = "call"
    /\ result' = getTimestampMapping(whisper_analysis)
    /\ pc' = "done"
    /\ UNCHANGED <<args, interpolator_calls, events>>

NextIndex == CallGetTimestampMapping

SpecIndex == InitIndex /\ [][NextIndex]_vars

\* ------------------------------------------------ specification: SpecInterp
\* Indexes of up to MaxEntries ranges [s, e) with distinct keys, in any
\* insertion order, overlapping or not.
IndexEntries ==
    {[key |-> <<s, e>>, val |-> [start |-> Rat(t1, 1), end |-> Rat(t2, 1)]] :
        s \in 0..MaxOffset, e \in 0..MaxOffset, t1 \in Times, t2 \in Times}

Indexes ==
    {m \in SeqsUpTo({x \in IndexEntries : x.key[1] < x.key[2]
                                            /\ RatLe(x.val.start, x.val.end)},
                    MaxEntries) :
        \A i, j \in 1..Len(m) : i # j => m[i].key # m[j].key}

\* The index of the interpolator's documented example.
ExampleIndex ==
    <<[key |-> <<0, 5>>, val |-> [start |-> Rat(0, 1), end |-> Rat(1, 1)]]>>

InitInterp ==
    /\ fn = "interpolateTimeFromDict"
    /\ pc = "call"
    /\ \/ d \in Indexes /\ word_position \in 0..(MaxOffset + 1)
       \/ d = ExampleIndex /\ word_position \in {3, 10}
    /\ search_type \in {"start", "end"}
    /\ words = <<>>
    /\ maxCaptionSize = 0
    /\ considerPunctuation = FALSE
    /\ whisper_analysis = Unset
    /\ raw_word = <<>>
    /\ interpolator_calls = <<>>
    /\ env = Unset
    /\ events = <<>>
    /\ script = <<>>
    /\ captions_timed = <<>>
    /\ max_retries = 0
    /\ video_segments = <<>>
    /\ result = Unset

CallInterpolateTimeFromDict ==
    /\ fn = "interpolateTimeFromDict"
    /\ pc = "call"
    /\ result' = interpolateTimeFromDict(word_position, d, search_type)
    /\ interpolator_calls' =
          Append(interpolator_calls, [position |-> word_position, index |-> d])
    /\ pc' = "done"
    /\ UNCHANGED <<args, events>>

NextInterp == CallInterpolateTimeFromDict

SpecInterp == InitInterp /\ [][NextInterp]_vars

\* ---------------------------------------------- specification: SpecCaptions
TextAlphabet == {"a", ".", " "}

Texts == SeqsUpTo(TextAlphabet, MaxTextLen)

DefaultCaptionSize == 15

CaptionSizes == (1..MaxCaptionSize) \cup {DefaultCaptionSize}

\* Tokens of getCaptionsWithTime's argument: a word "a" timestamped in any
\* way (its start may follow its end), an entry that is no mapping, a word whose end is no number,
\* and segment ends with no 'end', an 'end' of any time, an 'end' that is
\* no number, or a negative 'end'.
CaptionTokens ==
    {WordTok(Word("text", <<"a">>, st, e)) : st \in Times, e \in Times}
        \cup {WordTok(PyNone),
              WordTok(PyDict([text |-> PyStr(<<"a">>), start |-> PyNum(0),
                              end |-> NotANumber]))}
        \cup {CloseTok(<<>>)}
        \cup {CloseTok([end |-> PyNum(e)]) : e \in Times}
        \cup {CloseTok([end |-> NotANumber]), CloseTok([end |-> PyNum(0 - 1)])}

Min(a, b) == IF a <= b THEN a ELSE b

\* Values that are no transcription: no mapping, an empty mapping, a
\* mapping without 'text', with a None text, with None segments.
OtherInputs ==
    { PyNone, PyNum(1), PyStr(<<"a">>), PyList(<<>>), PyDict(<<>>),
      PyDict([segments |-> Segments(<<WordTok(Word("text", <<"a">>, 0, MaxTime))>>)]),
      PyDict([text |-> PyNone,
              segments |-> Segments(<<WordTok(Word("text", <<"a">>, 0, MaxTime))>>)]),
      PyDict([text |-> PyStr(<<"a">>), segments |-> PyNone]),
      PyDict([text |-> PyStr(<<"a">>), segments |-> PyList(<<PyNone>>)]) }

\* The lists of a list, one after the other.
RECURSIVE Flatten(_)
Flatten(lists) == IF lists = <<>> THEN <<>> ELSE Head(lists) \o Flatten(Tail(lists))

\* " ".join(ws) for a list of strings.
RECURSIVE JoinWords(_)
JoinWords(ws) ==
    IF ws = <<>> THEN <<>>
    ELSE IF Len(ws) = 1 THEN ws[1]
    ELSE ws[1] \o <<Space>> \o JoinWords(Tail(ws))

\* The transcription of the end-to-end example: nine words in one segment,
\* the k-th (from 0) spoken from 0.3 * k to 0.3 * (k + 1) seconds.
FoxWords ==
    << <<"T", "h", "e">>, <<"q", "u", "i", "c", "k">>, <<"b", "r", "o", "w", "n">>,
       <<"f", "o", "x">>, <<"j", "u", "m", "p", "s">>, <<"o", "v", "e", "r">>,
       <<"t", "h", "e">>, <<"l", "a", "z", "y">>, <<"d", "o", "g">> >>

QuickBrownFox ==
    PyDict([text |-> PyStr(JoinWords(FoxWords)),
            segments |-> PyList(<<SegmentOf(
                [k \in 1..Len(FoxWords) |->
                    PyDict([text |-> PyStr(FoxWords[k]),
                            start |-> PyFloat(3 * (k - 1), 10),
                            end |-> PyFloat(3 * k, 10)])],
                <<>>)>>)])

InitCaptions ==
    /\ fn = "getCaptionsWithTime"
    /\ pc = "call"
    /\ \/ \E text \in Texts :
            \/ \E toks \in SeqsUpTo(CaptionTokens,
                                    Min(MaxTokens, MaxInput - Len(text))) :
                  whisper_analysis =
                      PyDict([text |-> PyStr(text), segments |-> Segments(toks)])
            \/ whisper_analysis = PyDict([text |-> PyStr(text)])
       \/ whisper_analysis \in OtherInputs
       \/ whisper_analysis = QuickBrownFox
    /\ maxCaptionSize \in CaptionSizes
    /\ considerPunctuation \in BOOLEAN
    /\ words = <<>>
    /\ word_position = 0
    /\ d = <<>>
    /\ search_type = "end"
    /\ raw_word = <<>>
    /\ interpolator_calls = <<>>
    /\ env = Unset
    /\ events = <<>>
    /\ script = <<>>
    /\ captions_timed = <<>>
    /\ max_retries = 0
    /\ video_segments = <<>>
    /\ result = Unset

CallGetCaptionsWithTime ==
    /\ fn = "getCaptionsWithTime"
    /\ pc = "call"
    /\ result' = getCaptionsWithTime(whisper_analysis, maxCaptionSize,
                                     considerPunctuation)
    /\ interpolator_calls' =
          interpolator_calls \o InterpolatorCalls(whisper_analysis, maxCaptionSize,
                                                  considerPunctuation)
    /\ pc' = "done"
    /\ UNCHANGED <<args, events>>

NextCaptions == CallGetCaptionsWithTime

SpecCaptions == InitCaptions /\ [][NextCaptions]_vars

\* ----------------------------------------------- specification: SpecAligned
\* Transcriptions whose text is the texts of their words joined by single
\* spaces: up to MaxAlignedWords words, the k-th of n spoken from k - 1 to
\* k seconds or, backward, from n - k to n - k + 1, so that no two words end
\* at the same time.  One word may be written padded under the key 'word',
\* or be followed by an entry the index builder skips, or end a segment.
AlignedWordTexts == {<<"a">>, <<"b", ".">>, <<".">>}

AlignedVariants == {"plain", "padded", "none", "blank", "cut"}

AlignedWord(ws, k, forward, padded) ==
    Word(IF padded THEN "word" ELSE "text",
         IF padded THEN <<Space>> \o ws[k] \o <<Space>> ELSE ws[k],
         IF forward THEN k - 1 ELSE Len(ws) - k,
         IF forward THEN k ELSE Len(ws) - k + 1)

AlignedTokens(ws, forward, variant, at) ==
    Flatten([k \in 1..Len(ws) |->
        <<WordTok(AlignedWord(ws, k, forward, variant = "padded" /\ k = at))>>
            \o (CASE k # at -> <<>>
                  [] variant = "none" -> <<WordTok(PyNone)>>
                  [] variant = "blank" -> <<WordTok(Word("text", <<Space>>, 0, 0))>>
                  [] variant = "cut" -> <<CloseTok(<<>>)>>
                  [] OTHER -> <<>>)])

AlignedTranscription(ws, forward, variant, at) ==
    PyDict([text |-> PyStr(JoinWords(ws)),
            segments |-> Segments(AlignedTokens(ws, forward, variant, at))])

InitAligned ==
    /\ fn = "getCaptionsWithTime"
    /\ pc = "call"
    /\ \E ws \in SeqsUpTo(AlignedWordTexts, MaxAlignedWords) \ {<<>>},
          forward \in BOOLEAN, variant \in AlignedVariants :
          \E at \in 1..Len(ws) :
              whisper_analysis = AlignedTranscription(ws, forward, variant, at)
    /\ maxCaptionSize \in CaptionSizes
    /\ considerPunctuation \in BOOLEAN
    /\ words = <<>>
    /\ word_position = 0
    /\ d = <<>>
    /\ search_type = "end"
    /\ raw_word = <<>>
    /\ interpolator_calls = <<>>
    /\ env = Unset
    /\ events = <<>>
    /\ script = <<>>
    /\ captions_timed = <<>>
    /\ max_retries = 0
    /\ video_segments = <<>>
    /\ result = Unset

SpecAligned == InitAligned /\ [][NextCaptions]_vars

\* --------------------------------------------- specification: SpecSentences
\* Texts with sentence ends and with line breaks as well as spaces between
\* the words, without word timings or with one timed word.
SentenceAlphabet == {"a", ".", "?", " ", "\n"}

SentenceTexts == SeqsUpTo(SentenceAlphabet, MaxSentenceLen)

InitSentences ==
    /\ fn = "getCaptionsWithTime"
    /\ pc = "call"
    /\ \E text \in SentenceTexts :
          \/ whisper_analysis = PyDict([text |-> PyStr(text)])
          \/ whisper_analysis =
                PyDict([text |-> PyStr(text),
                        segments |-> Segments(<<WordTok(Word("text", <<"a">>,
                                                             0, MaxTime))>>)])
    /\ maxCaptionSize \in CaptionSizes
    /\ considerPunctuation \in BOOLEAN
    /\ words = <<>>
    /\ word_position = 0
    /\ d = <<>>
    /\ search_type = "end"
    /\ raw_word = <<>>
    /\ interpolator_calls = <<>>
    /\ env = Unset
    /\ events = <<>>
    /\ script = <<>>
    /\ captions_timed = <<>>
    /\ max_retries = 0
    /\ video_segments = <<>>
    /\ result = Unset

SpecSentences == InitSentences /\ [][NextCaptions]_vars

\* ------------------------------------------------------------- cleanWord
\* cleanWord applied to a string, then applied to what it returned.  The
\* strings have characters of every class the pattern names, and two it
\* removes.
CleanAlphabet == {"a", "7", "_", "-", "\"", "'", " ", ".", "!"}

InitClean ==
    /\ fn = "cleanWord"
    /\ pc = "call"
    /\ raw_word \in SeqsUpTo(CleanAlphabet, MaxCleanLen)
    /\ interpolator_calls = <<>>
    /\ env = Unset
    /\ events = <<>>
    /\ script = <<>>
    /\ captions_timed = <<>>
    /\ max_retries = 0
    /\ video_segments = <<>>
    /\ words = <<>>
    /\ maxCaptionSize = 0
    /\ considerPunctuation = FALSE
    /\ whisper_analysis = Unset
    /\ word_position = 0
    /\ d = <<>>
    /\ search_type = "end"
    /\ result = Unset

CallCleanWord ==
    /\ fn = "cleanWord"
    /\ pc = "call"
    /\ result' = cleanWord(raw_word)
    /\ pc' = "done"
    /\ UNCHANGED <<args, interpolator_calls, events>>

CallCleanWordAgain ==
    /\ fn = "cleanWord"
    /\ pc = "done"
    /\ result' = cleanWord(result)
    /\ pc' = "again"
    /\ UNCHANGED <<args, interpolator_calls, events>>

NextClean == CallCleanWord \/ CallCleanWordAgain

SpecClean == InitClean /\ [][NextClean]_vars

\* ----------------------------------------------- generate_timed_captions
\* env = [exists, getsize, load_model, transcribe]: os.path.exists's answer,
\* the outcome of os.path.getsize (a size or OSError), the outcome of
\* load_model, and for each of the four methods the outcome of its call of
\* the speech library (a raw result or an exception).  The model load_model
\* returns has a transcribe attribute, so methods 3 and 4 load no other.

\* Mutant of CheckAudioFile: an empty file passes.
CheckAudioFileAnySize(e) ==
    IF ~e.exists THEN Raise("FileNotFoundError")
    ELSE e.getsize

\* Lines 15-23: the checks of the audio file.
CheckAudioFile(e) ==
    IF ~e.exists THEN Raise("FileNotFoundError")
    ELSE IF e.getsize.exc THEN e.getsize
    ELSE IF e.getsize.val = 0 THEN Raise("ValueError")
    ELSE e.getsize

\* Lines 30-35: the methods, in the order they are tried.
methods ==
    <<"whisper_timestamped_conservative", "whisper_timestamped_basic",
      "fallback_regular_whisper", "simple_timing">>

\* result.get('text', '').
TextOrEmpty(raw) == IF "text" \in DOMAIN raw.v THEN raw.v["text"] ELSE PyStr(<<>>)

\* Lines 58-93: both return what transcribe_timestamped returns and raise
\* again what it raises.
transcribe_with_conservative_settings(lib) == lib
transcribe_with_basic_settings(lib) == lib

\* Lines 95-124: the result of model.transcribe when it has segments, else
\* a single segment of 10 seconds without words; None on any exception.
transcribe_with_regular_whisper(lib) ==
    IF lib.exc THEN Ok(PyNone)
    ELSE IF "segments" \in DOMAIN lib.val.v THEN lib
    ELSE Ok(PyDict([text |-> TextOrEmpty(lib.val),
                    segments |-> PyList(<<PyDict(
                        [start |-> PyNum(0), end |-> PyNum(10),
                         text |-> TextOrEmpty(lib.val),
                         words |-> PyList(<<>>)])>>)]))

\* max(len(text) * 0.05, 5.0).
EstimatedDuration(text) ==
    IF RatLe(Rat(Len(text.v), 20), Rat(5, 1)) THEN Rat(5, 1) ELSE Rat(Len(text.v), 20)

\* Lines 126-157: None for an empty text or any exception, else a single
\* segment of the estimated duration without words.
create_simple_timed_captions(lib) ==
    IF lib.exc THEN Ok(PyNone)
    ELSE IF ~Truthy(TextOrEmpty(lib.val)) THEN Ok(PyNone)
    ELSE Ok(PyDict([text |-> TextOrEmpty(lib.val),
                    segments |-> PyList(<<PyDict(
                        [start |-> PyNum(0),
                         end |-> [t |-> "float",
                                  v |-> EstimatedDuration(TextOrEmpty(lib.val))],
                         text |-> TextOrEmpty(lib.val),
                         words |-> PyList(<<>>)])>>)]))

\* method_func(WHISPER_MODEL, audio_filename) for the k-th method.
MethodResult(k, lib) ==
    CASE k = 1 -> transcribe_with_conservative_settings(lib)
      [] k = 2 -> transcribe_with_basic_settings(lib)
      [] k = 3 -> transcribe_with_regular_whisper(lib)
      [] k = 4 -> create_simple_timed_captions(lib)

\* Mutant of ReturnEmptyOnError: no except clause around the function.
PropagateError(e) == Propagates(e)

\* Lines 52-56: except Exception returns [].
ReturnEmptyOnError(e) == Returns(<<>>)

\* What the speech library may answer: an exception, an empty result, a
\* text without segments, an empty text, a transcription with timed words.
RawResults ==
    { PyDict(<<>>),
      PyDict([text |-> PyStr(<<"a", " ", "a">>)]),
      PyDict([text |-> PyStr(<<>>), segments |-> PyList(<<>>)]),
      PyDict([text |-> PyStr(<<"a", " ", "a">>),
              segments |-> Segments(<<WordTok(Word("text", <<"a">>, 0, 1)),
                                      WordTok(Word("text", <<"a">>, 1, MaxTime + 1))>>)]) }

LibraryOutcomes == {Raise("RuntimeError")} \cup {Ok(r) : r \in RawResults}

Environments ==
    [exists : BOOLEAN,
     getsize : {Raise("OSError")} \cup {Ok(n) : n \in 0..MaxFileSize},
     load_model : {Raise("RuntimeError"), Ok("WHISPER_MODEL")},
     transcribe : [1..Len(methods) -> LibraryOutcomes]]

InitGenerate ==
    /\ fn = "generate_timed_captions"
    /\ pc = "call"
    /\ env \in Environments
    /\ events = <<>>
    /\ script = <<>>
    /\ captions_timed = <<>>
    /\ max_retries = 0
    /\ video_segments = <<>>
    /\ interpolator_calls = <<>>
    /\ words = <<>>
    /\ maxCaptionSize = 0
    /\ considerPunctuation = FALSE
    /\ whisper_analysis = Unset
    /\ word_position = 0
    /\ d = <<>>
    /\ search_type = "end"
    /\ raw_word = <<>>
    /\ result = Unset

\* The methods tried so far.
MethodsTried == SelectSeq(events, LAMBDA ev : ev \in Range(methods))

\* Lines 15-23: the file is checked; a failed check is caught at line 52.
CheckAudio ==
    /\ fn = "generate_timed_captions"
    /\ pc = "call"
    /\ IF CheckAudioFile(env).exc
       THEN result' = ReturnEmptyOnError(CheckAudioFile(env).val) /\ pc' = "done"
       ELSE result' = result /\ pc' = "load_model"
    /\ UNCHANGED <<args, interpolator_calls, events>>

\* Line 26: load_model; its exception is caught at line 52.
LoadModel ==
    /\ fn = "generate_timed_captions"
    /\ pc = "load_model"
    /\ events' = Append(events, "load_model")
    /\ IF env.load_model.exc
       THEN result' = ReturnEmptyOnError(env.load_model.val) /\ pc' = "done"
       ELSE result' = result /\ pc' = "methods"
    /\ UNCHANGED <<args, interpolator_calls>>

\* Mutant of NextMethodSucceeds: any result of a method that did not raise
\* is taken, empty or not.
NextMethodReturns ==
    ~MethodResult(Len(MethodsTried) + 1, env.transcribe[Len(MethodsTried) + 1]).exc

\* The next method to try gives a result that is truthy.
NextMethodSucceeds ==
    /\ ~MethodResult(Len(MethodsTried) + 1, env.transcribe[Len(MethodsTried) + 1]).exc
    /\ Truthy(MethodResult(Len(MethodsTried) + 1,
                           env.transcribe[Len(MethodsTried) + 1]).val)

\* Lines 37-43: a method gives a result, getCaptionsWithTime(result) is
\* returned.
MethodSucceeds ==
    /\ fn = "generate_timed_captions"
    /\ pc = "methods"
    /\ Len(MethodsTried) < Len(methods)
    /\ NextMethodSucceeds
    /\ LET transcription ==
               MethodResult(Len(MethodsTried) + 1,
                            env.transcribe[Len(MethodsTried) + 1]).val
       IN /\ result' = getCaptionsWithTime(transcription, DefaultCaptionSize, FALSE)
          /\ interpolator_calls' =
                interpolator_calls
                    \o InterpolatorCalls(transcription, DefaultCaptionSize, FALSE)
    /\ events' = events \o <<methods[Len(MethodsTried) + 1], "getCaptionsWithTime">>
    /\ pc' = "done"
    /\ UNCHANGED args

\* Lines 37-46: a method raises or gives nothing, the loop goes on.
MethodFails ==
    /\ fn = "generate_timed_captions"
    /\ pc = "methods"
    /\ Len(MethodsTried) < Len(methods)
    /\ ~NextMethodSucceeds
    /\ events' = Append(events, methods[Len(MethodsTried) + 1])
    /\ pc' = "methods"
    /\ UNCHANGED <<args, interpolator_calls, result>>

\* Lines 48-50: every method failed.
AllMethodsFailed ==
    /\ fn = "generate_timed_captions"
    /\ pc = "methods"
    /\ Len(MethodsTried) = Len(methods)
    /\ result' = Returns(<<>>)
    /\ pc' = "done"
    /\ UNCHANGED <<args, interpolator_calls, events>>

NextGenerate ==
    \/ CheckAudio
    \/ LoadModel
    \/ MethodSucceeds
    \/ MethodFails
    \/ AllMethodsFailed

SpecGenerate == InitGenerate /\ [][NextGenerate]_vars

\* ------------------------------------------------- robust_audio_generation
\* env = [generate_audio]: for each attempt, how the awaited generate_audio
\* ends: it completes, the wait of 60 seconds times out, or it raises.  events logs the calls of
\* generate_audio, with the number of the attempt, and of asyncio.sleep,
\* with the seconds.
AudioCall(k) == [call |-> "generate_audio", arg |-> k]
SleepCall(secs) == [call |-> "sleep", arg |-> secs]

\* The attempts made so far.
Attempts == Len(SelectSeq(events, LAMBDA ev : ev.call = "generate_audio"))

\* Mutant of WaitBeforeRetry: the wait follows the last attempt too.
WaitAfterEveryAttempt(k, retries) == <<SleepCall(3 * k)>>

\* Lines 32-35 and 39-42 of app.py, after the k-th attempt (k from 1, the
\* code's attempt + 1): sleep (attempt + 1) * 3 seconds unless the attempt
\* was the last.
WaitBeforeRetry(k, retries) ==
    IF k - 1 < retries - 1 THEN <<SleepCall(3 * k)>> ELSE <<>>

AudioOutcomes == {"completes", "times out", "raises"}

InitAudio ==
    /\ fn = "robust_audio_generation"
    /\ pc = "for"
    /\ max_retries \in 0..MaxRetries
    /\ env \in [generate_audio : [1..MaxRetries -> AudioOutcomes]]
    /\ events = <<>>
    /\ script = <<>>
    /\ captions_timed = <<>>
    /\ video_segments = <<>>
    /\ interpolator_calls = <<>>
    /\ words = <<>>
    /\ maxCaptionSize = 0
    /\ considerPunctuation = FALSE
    /\ whisper_analysis = Unset
    /\ word_position = 0
    /\ d = <<>>
    /\ search_type = "end"
    /\ raw_word = <<>>
    /\ result = Unset

\* Lines 23-26: the next attempt awaits generate_audio.
StartAttempt ==
    /\ fn = "robust_audio_generation"
    /\ pc = "for"
    /\ Attempts < max_retries
    /\ events' = Append(events, AudioCall(Attempts + 1))
    /\ pc' = "await"
    /\ UNCHANGED <<args, interpolator_calls, result>>

\* Lines 27-28: generate_audio completed in time, True is returned.
AttemptCompletes ==
    /\ fn = "robust_audio_generation"
    /\ pc = "await"
    /\ env.generate_audio[Attempts] = "completes"
    /\ result' = Returns(TRUE)
    /\ pc' = "done"
    /\ UNCHANGED <<args, interpolator_calls, events>>

\* Lines 30-35: except asyncio.TimeoutError.
AttemptTimesOut ==
    /\ fn = "robust_audio_generation"
    /\ pc = "await"
    /\ env.generate_audio[Attempts] = "times out"
    /\ events' = events \o WaitBeforeRetry(Attempts, max_retries)
    /\ pc' = "for"
    /\ UNCHANGED <<args, interpolator_calls, result>>

\* Lines 37-42: except Exception.
AttemptRaises ==
    /\ fn = "robust_audio_generation"
    /\ pc = "await"
    /\ env.generate_audio[Attempts] = "raises"
    /\ events' = events \o WaitBeforeRetry(Attempts, max_retries)
    /\ pc' = "for"
    /\ UNCHANGED <<args, interpolator_calls, result>>

\* Lines 44-45: the loop is over, False is returned.
AllAttemptsFailed ==
    /\ fn = "robust_audio_generation"
    /\ pc = "for"
    /\ Attempts >= max_retries
    /\ result' = Returns(FALSE)
    /\ pc' = "done"
    /\ UNCHANGED <<args, interpolator_calls, events>>

NextAudio ==
    \/ StartAttempt
    \/ AttemptCompletes
    \/ AttemptTimesOut
    \/ AttemptRaises
    \/ AllAttemptsFailed

SpecAudio == InitAudio /\ [][NextAudio]_vars

\* ------------------------------------------- create_fallback_search_terms
\* Times are floats, kept as exact fractions; a segment is
\* <<<<start, end>>, keywords>>, a caption <<<<start, end>>, text>>.
UpperCase ==
    {"A", "B", "C", "D", "E", "F", "G", "H", "I", "J", "K", "L", "M", "N", "O",
     "P", "Q", "R", "S", "T", "U", "V", "W", "X", "Y", "Z"}
LowerCase ==
    {"a", "b", "c", "d", "e", "f", "g", "h", "i", "j", "k", "l", "m", "n", "o",
     "p", "q", "r", "s", "t", "u", "v", "w", "x", "y", "z"}

\* A run of letters between whitespace matches
\* r'\b[A-Z][a-z]+\b|\b[a-z]{4,}\b' whole or not at all: a capital followed
\* by small letters, or four small letters or more.
IsKeyword(tok) ==
    \/ /\ Len(tok) >= 2
       /\ tok[1] \in UpperCase
       /\ \A i \in 2..Len(tok) : tok[i] \in LowerCase
    \/ /\ Len(tok) >= 4
       /\ \A i \in 1..Len(tok) : tok[i] \in LowerCase

\* re.findall(..., script) for a script of letters and whitespace.
FindKeywords(text) == SelectSeq(Split(text), IsKeyword)

\* list(set(words)): the distinct words in every order the set may
\* iterate in.
Orderings(S) ==
    {o \in [1..Cardinality(S) -> S] : \A i, j \in 1..Cardinality(S) : o[i] = o[j] => i = j}

UniqueWordsLimit == 10

\* list(set(words))[:10] for the iteration order the environment picked.
UniqueWords(order) == SubSeq(order, 1, Min(UniqueWordsLimit, Len(order)))

SegmentDuration == 3

generic_terms ==
    << <<"n", "a", "t", "u", "r", "e", " ", "s", "c", "e", "n", "e">>,
       <<"l", "a", "n", "d", "s", "c", "a", "p", "e", " ", "v", "i", "e", "w">>,
       <<"a", "b", "s", "t", "r", "a", "c", "t", " ", "b", "a", "c", "k", "g", "r", "o", "u", "n", "d">> >>

\* Lines 165-173: the i-th keyword (i from 0) of a segment that starts with
\* word_index words used: the next unused word, or else a generic term.
Keyword(unique_words, word_index, i) ==
    IF word_index + i < Len(unique_words) THEN unique_words[word_index + i + 1]
    ELSE generic_terms[(i % Len(generic_terms)) + 1]

RatMin(x, y) == IF RatLe(x, y) THEN x ELSE y

\* Mutant of FallbackSegments: every segment lasts segment_duration, the
\* last one too.
RECURSIVE FallbackSegmentsUnclipped(_, _, _, _)
FallbackSegmentsUnclipped(current_time, word_index, total_duration, unique_words) ==
    IF ~RatLt(current_time, total_duration) THEN <<>>
    ELSE <<<<<<current_time, RatAdd(current_time, Rat(SegmentDuration, 1))>>,
             <<Keyword(unique_words, word_index, 0),
               Keyword(unique_words, word_index, 1),
               Keyword(unique_words, word_index, 2)>>>>>>
         \o FallbackSegmentsUnclipped(RatAdd(current_time, Rat(SegmentDuration, 1)),
                                      Min(word_index + 3, Len(unique_words)),
                                      total_duration, unique_words)

\* Lines 162-177: the while loop, from current_time with word_index words
\* used.
RECURSIVE FallbackSegments(_, _, _, _)
FallbackSegments(current_time, word_index, total_duration, unique_words) ==
    IF ~RatLt(current_time, total_duration) THEN <<>>
    ELSE <<<<<<current_time,
               RatMin(RatAdd(current_time, Rat(SegmentDuration, 1)), total_duration)>>,
             <<Keyword(unique_words, word_index, 0),
               Keyword(unique_words, word_index, 1),
               Keyword(unique_words, word_index, 2)>>>>>>
         \o FallbackSegments(RatMin(RatAdd(current_time, Rat(SegmentDuration, 1)),
                                    total_duration),
                             Min(word_index + 3, Len(unique_words)),
                             total_duration, unique_words)

\* Lines 180-185: the segments for no captions.
NoCaptionTerms ==
    << << <<Rat(0, 1), Rat(10, 1)>>,
         << <<"n", "a", "t", "u", "r", "e", " ", "s", "c", "e", "n", "e">>,
            <<"l", "a", "n", "d", "s", "c", "a", "p", "e", " ", "v", "i", "e", "w">>,
            <<"a", "b", "s", "t", "r", "a", "c", "t", " ", "b", "a", "c", "k", "g", "r", "o", "u", "n", "d">> >> >>,
       << <<Rat(10, 1), Rat(20, 1)>>,
         << <<"c", "i", "t", "y", " ", "v", "i", "e", "w">>,
            <<"m", "o", "d", "e", "r", "n", " ", "b", "u", "i", "l", "d", "i", "n", "g">>,
            <<"u", "r", "b", "a", "n", " ", "s", "c", "e", "n", "e">> >> >>,
       << <<Rat(20, 1), Rat(30, 1)>>,
         << <<"s", "k", "y", " ", "v", "i", "e", "w">>,
            <<"c", "l", "o", "u", "d", "s">>,
            <<"p", "e", "a", "c", "e", "f", "u", "l", " ", "s", "c", "e", "n", "e">> >> >> >>

\* create_fallback_search_terms(script, captions_timed), the set iterated in
\* the given order.  No statement of the try block raises for a script that
\* is a string and captions that are <<<<start, end>>, text>>.
create_fallback_search_terms(order, captions) ==
    IF captions # <<>>
    THEN FallbackSegments(Rat(0, 1), 0, captions[Len(captions)][1][2],
                          UniqueWords(order))
    ELSE NoCaptionTerms

\* ---------------------------------------------- specification: SpecFallback
\* Scripts of up to MaxScriptWords words, two of which the pattern passes
\* over; captions of 0..MaxCaptions entries, each starting where the one
\* before ended and ending at any of a few times, 0 and a negative time
\* among them (getCaptionsWithTime returns such entries for words that end
\* at 0 or before).
ScriptWords == {<<"A", "b">>, <<"a", "b", "c", "d">>, <<"a", "b", "c">>, <<"A">>}

Scripts == {JoinWords(ws) : ws \in SeqsUpTo(ScriptWords, MaxScriptWords)}

CaptionEnds == {Rat(0 - 1, 1), Rat(0, 1), Rat(1, 2), Rat(3, 1), Rat(7, 1)}

CaptionsEndingAt(ends) ==
    [k \in 1..Len(ends) |->
        <<<<IF k = 1 THEN Rat(0, 1) ELSE ends[k - 1], ends[k]>>, <<"a">>>>]

TimedCaptionLists == {CaptionsEndingAt(ends) : ends \in SeqsUpTo(CaptionEnds, MaxCaptions)}

InitFallback ==
    /\ fn = "create_fallback_search_terms"
    /\ pc = "call"
    /\ script \in Scripts
    /\ captions_timed \in TimedCaptionLists
    /\ env \in [unique_words : Orderings(Range(FindKeywords(script)))]
    /\ max_retries = 0
    /\ video_segments = <<>>
    /\ events = <<>>
    /\ interpolator_calls = <<>>
    /\ words = <<>>
    /\ maxCaptionSize = 0
    /\ considerPunctuation = FALSE
    /\ whisper_analysis = Unset
    /\ word_position = 0
    /\ d = <<>>
    /\ search_type = "end"
    /\ raw_word = <<>>
    /\ result = Unset

CallCreateFallbackSearchTerms ==
    /\ fn = "create_fallback_search_terms"
    /\ pc = "call"
    /\ result' = create_fallback_search_terms(env.unique_words, captions_timed)
    /\ pc' = "done"
    /\ UNCHANGED <<args, interpolator_calls, events>>

NextFallback == CallCreateFallbackSearchTerms

SpecFallback == InitFallback /\ [][NextFallback]_vars

\* ------------------------------------------ validate_and_fix_search_terms
\* [kw.strip() for kw in keywords if isinstance(kw, str) and kw.strip()].
IsCleanKeyword(kw) == kw.t = "str" /\ Strip(kw.v) # <<>>

CleanKeywords(keywords) ==
    [k \in 1..Len(SelectSeq(keywords, IsCleanKeyword)) |->
        Strip(SelectSeq(keywords, IsCleanKeyword)[k].v)]

\* Lines 107-133: the item is a list of a list of two values float()
\* converts and a list that holds at least one keyword; every other item,
\* and every item that raises, is passed over.
IsSearchTerm(item) ==
    /\ item.t = "list" /\ Len(item.v) = 2
    /\ item.v[1].t = "list" /\ Len(item.v[1].v) = 2
    /\ ~Float(item.v[1].v[1]).exc
    /\ ~Float(item.v[1].v[2]).exc
    /\ item.v[2].t = "list"
    /\ CleanKeywords(item.v[2].v) # <<>>

\* [[start_time, end_time], clean_keywords].
FixedSearchTerm(item) ==
    <<<<Float(item.v[1].v[1]).val, Float(item.v[1].v[2]).val>>,
      CleanKeywords(item.v[2].v)>>

validate_and_fix_search_terms(data) ==
    IF data.t # "list" THEN <<>>
    ELSE [k \in 1..Len(SelectSeq(data.v, IsSearchTerm)) |->
             FixedSearchTerm(SelectSeq(data.v, IsSearchTerm)[k])]

\* ---------------------------------------------- getVideoSearchQueriesTimed
\* env = [unique_words, responses]: the order the set of script words
\* iterates in and, for each attempt, what call_OpenAI does: it raises, or
\* it returns a content, given as what each of the five parsing strategies
\* makes of it (it raises, or json.loads returns a value).  events logs the
\* calls of call_OpenAI.
RatSub(x, y) == Rat(x.n * y.d - y.n * x.d, x.d * y.d)

\* Mutant of CoversDuration: any validated list is taken.
CoversAnyDuration(last_end, end_time) == TRUE

\* Line 241: abs(last_end - end_time) <= 2.0.
CoversDuration(last_end, end_time) ==
    /\ RatLe(RatSub(last_end, end_time), Rat(2, 1))
    /\ RatLe(RatSub(end_time, last_end), Rat(2, 1))

\* Lines 231-244: what a strategy made of the content is returned: it is a
\* list, validation leaves segments, and the last one ends within the
\* tolerance.
IsReturned(parsed, end_time) ==
    /\ ~parsed.exc
    /\ parsed.val.t = "list"
    /\ validate_and_fix_search_terms(parsed.val) # <<>>
    /\ CoversDuration(
          validate_and_fix_search_terms(parsed.val)
              [Len(validate_and_fix_search_terms(parsed.val))][1][2],
          end_time)

NumStrategies == 5

\* The strategies of the content, in order, whose outcome is returned.
ReturnedStrategies(content, end_time) ==
    {i \in 1..NumStrategies : IsReturned(content[i], end_time)}

FirstOf(S) == CHOOSE i \in S : \A j \in S : i <= j

\* What json.loads may return: an object, a list of items none of which is
\* a search term, a list of one search term that ends at 2 seconds, and a
\* list of five items of which the first and the fourth are search terms,
\* the last one of these ending at 5 seconds.
NotAList == PyDict(<<>>)

EarlySearchTerms ==
    PyList(<< PyList(<<PyList(<<PyNum(0), PyNum(2)>>),
                       PyList(<<PyStr(<<"c", "a", "t">>)>>)>>) >>)

NoSearchTerms ==
    PyList(<< PyNum(1),
              PyList(<<PyList(<<PyNum(0)>>), PyList(<<PyStr(<<"c">>)>>)>>),
              PyList(<<PyList(<<PyNum(0), PyNum(5)>>), PyStr(<<"c">>)>>) >>)

SomeSearchTerms ==
    PyList(<< PyList(<<PyList(<<PyNum(0), PyNum(2)>>),
                       PyList(<<PyStr(<<" ", "c", "a", "t">>), PyNum(1),
                                PyStr(<<" ">>)>>)>>),
              PyStr(<<"x">>),
              PyList(<<PyList(<<PyNum(2), NotANumber>>),
                       PyList(<<PyStr(<<"d">>)>>)>>),
              PyList(<<PyList(<<PyStr(<<"2">>), PyNum(5)>>),
                       PyList(<<PyStr(<<"d", "o", "g">>)>>)>>),
              PyList(<<PyList(<<PyNum(5), PyNum(9)>>),
                       PyList(<<PyStr(<<" ">>)>>)>>) >>)

ParseOutcomes == {Raise("JSONDecodeError"), Ok(NoSearchTerms), Ok(SomeSearchTerms)}

\* Contents: every strategy makes the same of it; only the strategies that
\* extract the array parse it; the last two strategies only give search
\* terms, that end at different times.
Contents ==
    {[i \in 1..NumStrategies |-> o] : o \in ParseOutcomes}
        \cup {<<Raise("JSONDecodeError"), Ok(SomeSearchTerms),
                Raise("JSONDecodeError"), Ok(SomeSearchTerms),
                Raise("JSONDecodeError")>>,
              <<Ok(NotAList), Ok(NoSearchTerms), Raise("JSONDecodeError"),
                Ok(EarlySearchTerms), Ok(SomeSearchTerms)>>}

Responses == {Raise("APIError")} \cup {Ok(c) : c \in Contents}

QueryScripts == {<<>>, <<"A", "b">>}

\* The search terms end at 5 seconds: the captions end farther from it than
\* the tolerance, or at the tolerance exactly, before it or after.
QueryCaptionEnds == {Rat(0, 1), Rat(5, 2), Rat(3, 1), Rat(7, 1)}

QueryCaptions ==
    {<<>>} \cup {CaptionsEndingAt(<<Rat(1, 1), e>>) : e \in QueryCaptionEnds}

InitQueries ==
    /\ fn = "getVideoSearchQueriesTimed"
    /\ pc = "call"
    /\ script \in QueryScripts
    /\ captions_timed \in QueryCaptions
    /\ max_retries \in 0..MaxRetries
    /\ env \in [unique_words : Orderings(Range(FindKeywords(script))),
                responses : [1..MaxRetries -> Responses]]
    /\ video_segments = <<>>
    /\ events = <<>>
    /\ interpolator_calls = <<>>
    /\ words = <<>>
    /\ maxCaptionSize = 0
    /\ considerPunctuation = FALSE
    /\ whisper_analysis = Unset
    /\ word_position = 0
    /\ d = <<>>
    /\ search_type = "end"
    /\ raw_word = <<>>
    /\ result = Unset

\* Lines 197-199: without captions the fallback terms are returned.
NoCaptions ==
    /\ fn = "getVideoSearchQueriesTimed"
    /\ pc = "call"
    /\ captions_timed = <<>>
    /\ result' = create_fallback_search_terms(env.unique_words, <<>>)
    /\ pc' = "done"
    /\ UNCHANGED <<args, interpolator_calls, events>>

\* Line 201: end_time is read and the loop is entered.
EnterLoop ==
    /\ fn = "getVideoSearchQueriesTimed"
    /\ pc = "call"
    /\ captions_timed # <<>>
    /\ pc' = "for"
    /\ UNCHANGED <<args, interpolator_calls, events, result>>

\* Lines 203-208, 265-269: call_OpenAI raises, the attempt is over.
ModelCallRaises ==
    /\ fn = "getVideoSearchQueriesTimed"
    /\ pc = "for"
    /\ Len(events) < max_retries
    /\ env.responses[Len(events) + 1].exc
    /\ events' = Append(events, "call_OpenAI")
    /\ pc' = "for"
    /\ UNCHANGED <<args, interpolator_calls, result>>

\* Lines 203-244: the first strategy whose outcome passes the checks gives
\* the returned list.
ResponseReturned ==
    /\ fn = "getVideoSearchQueriesTimed"
    /\ pc = "for"
    /\ Len(events) < max_retries
    /\ ~env.responses[Len(events) + 1].exc
    /\ ReturnedStrategies(env.responses[Len(events) + 1].val,
                          captions_timed[Len(captions_timed)][1][2]) # {}
    /\ events' = Append(events, "call_OpenAI")
    /\ result' = validate_and_fix_search_terms(
                     env.responses[Len(events) + 1].val[
                         FirstOf(ReturnedStrategies(
                             env.responses[Len(events) + 1].val,
                             captions_timed[Len(captions_timed)][1][2]))].val)
    /\ pc' = "done"
    /\ UNCHANGED <<args, interpolator_calls>>

\* Lines 203-263: no strategy gives a list that passes, the attempt is over.
ResponseRejected ==
    /\ fn = "getVideoSearchQueriesTimed"
    /\ pc = "for"
    /\ Len(events) < max_retries
    /\ ~env.responses[Len(events) + 1].exc
    /\ ReturnedStrategies(env.responses[Len(events) + 1].val,
                          captions_timed[Len(captions_timed)][1][2]) = {}
    /\ events' = Append(events, "call_OpenAI")
    /\ pc' = "for"
    /\ UNCHANGED <<args, interpolator_calls, result>>

\* Lines 272-274: the attempts are used up, the fallback terms are returned.
ReturnFallback ==
    /\ fn = "getVideoSearchQueriesTimed"
    /\ pc = "for"
    /\ Len(events) >= max_retries
    /\ result' = create_fallback_search_terms(env.unique_words, captions_timed)
    /\ pc' = "done"
    /\ UNCHANGED <<args, interpolator_calls, events>>

NextQueries ==
    \/ NoCaptions
    \/ EnterLoop
    \/ ModelCallRaises
    \/ ResponseReturned
    \/ ResponseRejected
    \/ ReturnFallback

SpecQueries == InitQueries /\ [][NextQueries]_vars

\* --------------------------------------------------- merge_empty_intervals
\* A segment is [interval, url]: <<<<start, end>>, url>>, the url None where
\* no video was found.
NoUrl == PyNone

\* Lines 321-323: j, the first index after i at which a segment has a url,
\* or the one after the last segment.
RECURSIVE RunEnd(_, _)
RunEnd(segments, j) ==
    IF j <= Len(segments) /\ segments[j][2] = NoUrl
    THEN RunEnd(segments, j + 1)
    ELSE j

\* Lines 326-338, the run of url-less segments i .. j-1: the last merged
\* segment is extended to the end of the run where it has a url and ends at
\* the run's start; where it has a url and ends elsewhere, the run's first
\* interval is appended with that url; in every other case the run's first
\* interval is appended without a url.
UrlLessRun(segments, i, j, merged) ==
    IF i > 1 /\ merged # <<>>
    THEN IF merged[Len(merged)][2] # NoUrl
         THEN IF merged[Len(merged)][1][2] = segments[i][1][1]
              THEN [merged EXCEPT ![Len(merged)] =
                       <<<<merged[Len(merged)][1][1], segments[j - 1][1][2]>>,
                         merged[Len(merged)][2]>>]
              ELSE Append(merged, <<segments[i][1], merged[Len(merged)][2]>>)
         ELSE Append(merged, <<segments[i][1], NoUrl>>)
    ELSE Append(merged, <<segments[i][1], NoUrl>>)

\* Lines 315-348, the while loop from index i on.
RECURSIVE MergeFrom(_, _, _)
MergeFrom(segments, i, merged) ==
    IF i > Len(segments)
    THEN merged
    ELSE IF segments[i][2] = NoUrl
         THEN MergeFrom(segments, RunEnd(segments, i + 1),
                        UrlLessRun(segments, i, RunEnd(segments, i + 1), merged))
         ELSE MergeFrom(segments, i + 1, Append(merged, segments[i]))

merge_empty_intervals(segments) ==
    IF segments = <<>> THEN <<>> ELSE MergeFrom(segments, 1, <<>>)

\* Inputs: up to MaxSegments segments from time 0 on, each with or without a
\* url, of 1 or 2 seconds, starting where the previous one ends or after a
\* gap of a second.
MaxSegments == 4
Urls == {NoUrl, PyStr("u"), PyStr("v")}
SegmentSeconds == {1, 2}
SegmentGaps == {0, 1}

NextStart(s, gap) == IF s = <<>> THEN 0 ELSE s[Len(s)][1][2] + gap

RECURSIVE SegmentLists(_)
SegmentLists(n) ==
    IF n = 0
    THEN {<<>>}
    ELSE SegmentLists(n - 1) \cup
         {Append(s, <<<<NextStart(s, gap), NextStart(s, gap) + secs>>, url>>) :
            s \in {t \in SegmentLists(n - 1) : Len(t) = n - 1},
            gap \in SegmentGaps, secs \in SegmentSeconds, url \in Urls}

InitMerge ==
    /\ fn = "merge_empty_intervals"
    /\ pc = "call"
    /\ video_segments \in SegmentLists(MaxSegments)
    /\ script = <<>>
    /\ captions_timed = <<>>
    /\ env = Unset
    /\ max_retries = 0
    /\ events = <<>>
    /\ interpolator_calls = <<>>
    /\ words = <<>>
    /\ maxCaptionSize = 0
    /\ considerPunctuation = FALSE
    /\ whisper_analysis = Unset
    /\ word_position = 0
    /\ d = <<>>
    /\ search_type = "end"
    /\ raw_word = <<>>
    /\ result = Unset

CallMergeEmptyIntervals ==
    /\ fn = "merge_empty_intervals"
    /\ pc = "call"
    /\ result' = merge_empty_intervals(video_segments)
    /\ pc' = "done"
    /\ UNCHANGED <<args, interpolator_calls, events>>

NextMerge == CallMergeEmptyIntervals

SpecMerge == InitMerge /\ [][NextMerge]_vars

\* ------------------------------------------------------------------ claims
\* C1: every chunk splitWordsBySize returns has length <= maxSize, except a
\* chunk that is exactly one source word whose own length exceeds maxSize.
C1_ChunkSizeBound ==
    Returned("splitWordsBySize") =>
        \A i \in 1..Len(result) :
            \/ Len(result[i]) <= maxCaptionSize
            \/ result[i] \in Range(words) /\ Len(result[i]) > maxCaptionSize

\* C1 witness: one call returns both a multi-word chunk that fills maxSize
\* exactly and a single over-long word as a chunk of its own.
C1_Witness ==
    /\ Returned("splitWordsBySize")
    /\ \E i, j \in 1..Len(result) :
          /\ Len(result[i]) = maxCaptionSize /\ result[i] \notin Range(words)
          /\ Len(result[j]) > maxCaptionSize /\ result[j] \in Range(words)

\* ------------------------------------------- claims on getCaptionsWithTime
\* The entries getCaptionsWithTime returned.
Entries == result.value
StartOf(entry) == entry[1][1]
EndOf(entry) == entry[1][2]
TextOf(entry) == entry[2]

IsMapping == whisper_analysis.t = "dict"
HasText == IsMapping /\ "text" \in DOMAIN whisper_analysis.v
AllWhitespace(chars) == \A i \in 1..Len(chars) : chars[i] \in Whitespace

\* The text is a string with a character that is no whitespace.
NonBlankText ==
    /\ HasText
    /\ whisper_analysis.v["text"].t = "str"
    /\ ~AllWhitespace(whisper_analysis.v["text"].v)

\* The chunks of the call's text, and the index built for it.
ChunksOfCall ==
    CaptionChunks(Strip(whisper_analysis.v["text"].v), maxCaptionSize,
                  considerPunctuation)
IndexOfCall == getTimestampMapping(whisper_analysis)

NormalPath == NonBlankText /\ IndexOfCall # <<>>
DegradedPath == NonBlankText /\ IndexOfCall = <<>>

\* C2: on the normal path the first entry starts at 0 and every later entry
\* starts exactly at the end of the entry emitted before it, also when chunks
\* in between produced no entry.
C2_Contiguity ==
    Returned("getCaptionsWithTime") /\ NormalPath =>
        /\ Entries # <<>> => StartOf(Entries[1]) = Rat(0, 1)
        /\ \A i \in 1..(Len(Entries) - 1) :
              StartOf(Entries[i + 1]) = EndOf(Entries[i])

\* C2 witness: a normal-path call whose chunks have, strictly between two
\* chunks that produce entries, a chunk whose cleaned text is empty.
C2_Witness ==
    /\ Returned("getCaptionsWithTime") /\ NormalPath
    /\ Len(Entries) >= 2
    /\ \E i, j, k \in 1..Len(ChunksOfCall) :
          /\ i < j /\ j < k
          /\ EntryText(ChunksOfCall[i], considerPunctuation) # <<>>
          /\ EntryText(ChunksOfCall[j], considerPunctuation) = <<>>
          /\ EntryText(ChunksOfCall[k], considerPunctuation) # <<>>

\* The segments of the call that are mappings, and the word entries of
\* their 'words' lists, in segment order, then word order.
SegmentList ==
    IF IsMapping /\ "segments" \in DOMAIN whisper_analysis.v
                 /\ whisper_analysis.v["segments"].t = "list"
    THEN SelectSeq(whisper_analysis.v["segments"].v, LAMBDA sg : sg.t = "dict")
    ELSE <<>>

WordsOfSegment(sg) ==
    IF "words" \in DOMAIN sg.v /\ sg.v["words"].t = "list" THEN sg.v["words"].v
    ELSE <<>>

AllWords == Flatten([i \in 1..Len(SegmentList) |-> WordsOfSegment(SegmentList[i])])

\* A word entry that carries a number under key.
HasTime(w, key) == w.t = "dict" /\ key \in DOMAIN w.v /\ w.v[key].t = "num"
IsTimed(w) == HasTime(w, "start") /\ HasTime(w, "end")

\* The data model's invariants, read at their strongest: every timed word
\* has start <= end; the segments are ordered by time, so the 'end' values
\* of the segments are non-decreasing and no word of a segment starts before
\* a word of an earlier segment ends.
WordsWellFormed ==
    \A i \in 1..Len(AllWords) :
        IsTimed(AllWords[i]) => AllWords[i].v["start"].v <= AllWords[i].v["end"].v

SegmentsOrdered ==
    \A i, j \in 1..Len(SegmentList) :
        i < j =>
            /\ (HasTime(SegmentList[i], "end") /\ HasTime(SegmentList[j], "end"))
                  => SegmentList[i].v["end"].v <= SegmentList[j].v["end"].v
            /\ \A a \in 1..Len(WordsOfSegment(SegmentList[i])),
                  b \in 1..Len(WordsOfSegment(SegmentList[j])) :
                  LET wa == WordsOfSegment(SegmentList[i])[a]
                      wb == WordsOfSegment(SegmentList[j])[b]
                  IN (IsTimed(wa) /\ IsTimed(wb)) => wa.v["end"].v <= wb.v["start"].v

DataModelInvariants == NonBlankText /\ WordsWellFormed /\ SegmentsOrdered

\* The end times of the timed words never decrease in segment-then-word
\* order, and no time is negative.
WordEndsOrdered ==
    /\ \A i, j \in 1..Len(AllWords) :
          (i < j /\ IsTimed(AllWords[i]) /\ IsTimed(AllWords[j]))
              => AllWords[i].v["end"].v <= AllWords[j].v["end"].v
    /\ \A i \in 1..Len(AllWords) :
          IsTimed(AllWords[i]) => AllWords[i].v["end"].v >= 0
    /\ \A i \in 1..Len(SegmentList) :
          HasTime(SegmentList[i], "end") => SegmentList[i].v["end"].v >= 0

Monotonic(entries) ==
    /\ \A i \in 1..Len(entries) : RatLe(StartOf(entries[i]), EndOf(entries[i]))
    /\ \A i \in 1..(Len(entries) - 1) : RatLe(EndOf(entries[i]), EndOf(entries[i + 1]))

\* C3 as stated: for a transcription that satisfies the data model's
\* invariants every entry has start <= end and the end times of consecutive
\* entries are non-decreasing.
C3_MonotonicAsStated ==
    Returned("getCaptionsWithTime") /\ DataModelInvariants => Monotonic(Entries)

\* C3, amended: the same, for a transcription whose timed words moreover
\* have non-negative end times that never decrease in segment-then-word
\* order.
C3_Monotonic ==
    Returned("getCaptionsWithTime") /\ DataModelInvariants /\ WordEndsOrdered
        => Monotonic(Entries)

\* C3 witness: a normal-path call on such a transcription returned entries
\* with strictly increasing end times.
C3_Witness ==
    /\ Returned("getCaptionsWithTime") /\ NormalPath
    /\ DataModelInvariants /\ WordEndsOrdered
    /\ Len(Entries) >= 2
    /\ RatLt(EndOf(Entries[1]), EndOf(Entries[2]))

\* C4: the result is the empty sequence whenever the text is absent (no
\* 'text', or None), empty or whitespace-only, whatever the segments hold.
TextAbsentOrBlank ==
    /\ IsMapping
    /\ \/ "text" \notin DOMAIN whisper_analysis.v
       \/ whisper_analysis.v["text"] = PyNone
       \/ /\ whisper_analysis.v["text"].t = "str"
          /\ AllWhitespace(whisper_analysis.v["text"].v)

C4_EmptyTextIdentity ==
    Returned("getCaptionsWithTime") /\ TextAbsentOrBlank =>
        result = Returns(<<>>)

\* C4 witness: a whitespace-only text beside a segment with a fully
\* timestamped word returned the empty sequence.
C4_Witness ==
    /\ Returned("getCaptionsWithTime")
    /\ HasText
    /\ whisper_analysis.v["text"].t = "str"
    /\ whisper_analysis.v["text"].v # <<>>
    /\ AllWhitespace(whisper_analysis.v["text"].v)
    /\ IndexOfCall # <<>>
    /\ result = Returns(<<>>)

\* C5: getCaptionsWithTime never raises to its caller: it returns a sequence
\* for every input, and the empty sequence for a non-mapping or empty input.
C5_NeverRaises ==
    Returned("getCaptionsWithTime") =>
        /\ ~result.raised
        /\ DOMAIN result.value = 1..Len(result.value)
        /\ (~IsMapping \/ ~Truthy(whisper_analysis)) => result.value = <<>>

\* C5 witness: the try block raised (no mapping, or a mapping without
\* 'text') and the caller got the empty sequence.
C5_Witness ==
    /\ Returned("getCaptionsWithTime")
    /\ getCaptionsWithTimeBody(whisper_analysis, maxCaptionSize,
                               considerPunctuation).exc
    /\ ~IsMapping
    /\ result = Returns(<<>>)

\* Every segment of the transcription is a mapping whose 'words' list is
\* empty (a transcription may have no segments at all).
EveryWordsListEmpty ==
    /\ IsMapping
    /\ "segments" \in DOMAIN whisper_analysis.v =>
          /\ whisper_analysis.v["segments"].t = "list"
          /\ \A i \in 1..Len(whisper_analysis.v["segments"].v) :
                LET sg == whisper_analysis.v["segments"].v[i]
                IN sg.t = "dict" /\ "words" \in DOMAIN sg.v
                                 /\ sg.v["words"] = PyList(<<>>)

\* A character that text cleaning keeps and that is no whitespace.
Speakable(c) == c \in WordChars \cup {"-", "_", "\"", "'"}
HasSpeakable(chars) == \E i \in 1..Len(chars) : Speakable(chars[i])

\* C6 as stated: a non-blank text with every segment's words list empty
\* gives a non-empty result.
C6_DegradedNonEmptyAsStated ==
    Returned("getCaptionsWithTime") /\ NonBlankText /\ EveryWordsListEmpty
        => Entries # <<>>

\* C6, amended: a non-blank text with every segment's words list empty
\* gives a non-empty result provided punctuation is preserved or the text
\* has a character that cleaning keeps and that is no whitespace.
C6_DegradedNonEmpty ==
    /\ Returned("getCaptionsWithTime") /\ NonBlankText /\ EveryWordsListEmpty
    /\ considerPunctuation \/ HasSpeakable(whisper_analysis.v["text"].v)
    => Entries # <<>>

\* C6 witness: entries were returned for a text of words and punctuation,
\* cleaned, whose one segment has no words.
C6_Witness ==
    /\ Returned("getCaptionsWithTime") /\ NonBlankText /\ EveryWordsListEmpty
    /\ ~considerPunctuation
    /\ "segments" \in DOMAIN whisper_analysis.v
    /\ Len(whisper_analysis.v["segments"].v) = 1
    /\ HasSpeakable(whisper_analysis.v["text"].v)
    /\ \E i \in 1..Len(whisper_analysis.v["text"].v) :
          whisper_analysis.v["text"].v[i] = "."
    /\ Entries # <<>>

\* The i-th of the call's n equal slices of the total duration the code
\* used.
SliceOfCall(i) ==
    LET per == RatDivInt(TotalDuration(whisper_analysis), Len(ChunksOfCall))
    IN <<RatMulInt(i - 1, per), RatMulInt(i, per)>>

\* C7 as stated: on the degraded path the k-th returned entry has the k-th
\* slice [k*T/n, (k+1)*T/n) (k from 0), so consecutive entries leave no gap,
\* and the last entry ends at T.
C7_EqualSlicesAsStated ==
    Returned("getCaptionsWithTime") /\ DegradedPath =>
        /\ \A k \in 1..Len(Entries) : Entries[k][1] = SliceOfCall(k)
        /\ \A k \in 1..(Len(Entries) - 1) : EndOf(Entries[k]) = StartOf(Entries[k + 1])
        /\ Entries # <<>> =>
              EndOf(Entries[Len(Entries)]) = TotalDuration(whisper_analysis)

\* A chunk yields an entry unless nothing of it is left after cleaning.
YieldsEntry(chunk) ==
    IF considerPunctuation THEN ~AllWhitespace(chunk) ELSE HasSpeakable(chunk)

EntryChunks ==
    SelectSeq([i \in 1..Len(ChunksOfCall) |-> i],
              LAMBDA i : YieldsEntry(ChunksOfCall[i]))

\* C7, amended: on the degraded path the entries are those of the chunks
\* that cleaning leaves non-empty, in order, and the entry of the i-th of
\* the n chunks (i from 0, counting the chunks that yield no entry) has the
\* interval [i*T/n, (i+1)*T/n); the intervals leave no gap and end at T only
\* when every chunk yields an entry.
C7_EqualSlices ==
    Returned("getCaptionsWithTime") /\ DegradedPath =>
        /\ Len(Entries) = Len(EntryChunks)
        /\ \A k \in 1..Len(Entries) : Entries[k][1] = SliceOfCall(EntryChunks[k])
        /\ Len(Entries) = Len(ChunksOfCall) =>
              /\ \A k \in 1..(Len(Entries) - 1) :
                    EndOf(Entries[k]) = StartOf(Entries[k + 1])
              /\ EndOf(Entries[Len(Entries)]) = TotalDuration(whisper_analysis)

\* C7 witness: a degraded call returned two entries or more, one fewer at
\* least than it had chunks.
C7_Witness ==
    /\ Returned("getCaptionsWithTime") /\ DegradedPath
    /\ Len(Entries) >= 2
    /\ Len(Entries) < Len(ChunksOfCall)

\* The last element of the 'segments' list, when there is one.
HasSegments ==
    /\ IsMapping /\ "segments" \in DOMAIN whisper_analysis.v
    /\ whisper_analysis.v["segments"].t = "list"
    /\ whisper_analysis.v["segments"].v # <<>>

LastSegment ==
    whisper_analysis.v["segments"].v[Len(whisper_analysis.v["segments"].v)]

LastSegmentHasEnd ==
    HasSegments /\ LastSegment.t = "dict" /\ "end" \in DOMAIN LastSegment.v

\* Every returned entry is as wide as one n-th of duration.
SlicedBy(duration) ==
    \A k \in 1..Len(Entries) :
        RatMulInt(Len(ChunksOfCall), EndOf(Entries[k]))
            = RatAdd(RatMulInt(Len(ChunksOfCall), StartOf(Entries[k])), duration)

\* C8 as stated: on the degraded path the duration that is sliced is the
\* last segment's end whenever that segment carries one, whatever its
\* value, and 10.0 only when there are no segments or the last has no end.
C8_TotalDurationAsStated ==
    Returned("getCaptionsWithTime") /\ DegradedPath /\ Entries # <<>> =>
        /\ (LastSegmentHasEnd /\ LastSegment.v["end"].t = "num")
              => SlicedBy(Rat(LastSegment.v["end"].v, 1))
        /\ SlicedBy(Rat(10, 1)) => ~LastSegmentHasEnd

\* C8, amended: on the degraded path the duration that is sliced is the
\* last segment's end when that end is a number other than zero (whatever
\* the ends of earlier segments), and 10.0 otherwise: no segments, a last
\* segment without end, with an end of zero, or with an end that is no
\* number.
C8_TotalDuration ==
    Returned("getCaptionsWithTime") /\ DegradedPath =>
        IF LastSegmentHasEnd /\ LastSegment.v["end"].t = "num"
                             /\ LastSegment.v["end"].v # 0
        THEN SlicedBy(Rat(LastSegment.v["end"].v, 1))
        ELSE SlicedBy(Rat(10, 1))

\* C8 witness: a degraded call returned entries sliced from the end of the
\* last of two segments, the first of which carries another end.
C8_Witness ==
    /\ Returned("getCaptionsWithTime") /\ DegradedPath /\ Entries # <<>>
    /\ LastSegmentHasEnd /\ LastSegment.v["end"].t = "num"
    /\ LastSegment.v["end"].v # 0
    /\ Len(whisper_analysis.v["segments"].v) >= 2
    /\ LET first == whisper_analysis.v["segments"].v[1]
       IN HasTime(first, "end") /\ first.v["end"].v # LastSegment.v["end"].v

\* The text of a word entry, under 'text' or else 'word', stripped of the
\* whitespace around it.
TextOfWord(w) ==
    Strip((IF "text" \in DOMAIN w.v THEN w.v["text"] ELSE w.v["word"]).v)

\* Every segment is a mapping and every word of it is a mapping with a
\* non-blank text and both timestamps.
EveryWordUsable ==
    /\ IsMapping /\ "segments" \in DOMAIN whisper_analysis.v
    /\ whisper_analysis.v["segments"].t = "list"
    /\ Len(SegmentList) = Len(whisper_analysis.v["segments"].v)
    /\ \A k \in 1..Len(AllWords) :
          LET w == AllWords[k]
          IN /\ IsTimed(w)
             /\ \E key \in {"text", "word"} : key \in DOMAIN w.v /\ w.v[key].t = "str"
             /\ TextOfWord(w) # <<>>

\* c_k: the offset of the k-th word (k from 1 here).
RECURSIVE Cursor(_)
Cursor(k) ==
    IF k = 1 THEN 0 ELSE Cursor(k - 1) + Len(TextOfWord(AllWords[k - 1])) + 1

\* C9: when every word has a non-blank text and both timestamps, the index
\* has one range per word, in segment order, then word order: the k-th is
\* [c_k, c_k + len(w_k)), len(w_k) the length of the word's text without
\* the whitespace around it, mapped to the word's start and end, with
\* c_0 = 0 and c_(k+1) = c_k + len(w_k) + 1; the ranges increase strictly
\* and never overlap; "Hello", "world" gives [0,5) and [6,11).
C9_IndexOffsets ==
    Returned("getTimestampMapping") /\ EveryWordUsable =>
        /\ Len(result) = Len(AllWords)
        /\ \A k \in 1..Len(result) :
              /\ result[k].key = <<Cursor(k), Cursor(k) + Len(TextOfWord(AllWords[k]))>>
              /\ result[k].val = [start |-> Rat(AllWords[k].v["start"].v, 1),
                                  end |-> Rat(AllWords[k].v["end"].v, 1)]
        /\ \A j, k \in 1..Len(result) :
              j < k => /\ result[j].key[1] < result[k].key[1]
                       /\ result[j].key[2] <= result[k].key[1]
        /\ whisper_analysis = HelloWorld =>
              /\ result[1].key = <<0, 5>>
              /\ result[2].key = <<6, 11>>

\* C9 witness: an index of two ranges was built from the usable words of
\* two segments, the first written with a leading space.
C9_Witness ==
    /\ Returned("getTimestampMapping") /\ EveryWordUsable
    /\ Len(SegmentList) = 2
    /\ WordsOfSegment(SegmentList[1]) # <<>>
    /\ WordsOfSegment(SegmentList[2]) # <<>>
    /\ Len(result) = 2
    /\ "word" \in DOMAIN AllWords[1].v

\* The ranges of the index that contain the position, those that end at or
\* before it, and of these the ones that end last.
Containing == {i \in 1..Len(d) : d[i].key[1] <= word_position /\ word_position < d[i].key[2]}
Preceding == {i \in 1..Len(d) : d[i].key[2] <= word_position}
LastPreceding == {i \in Preceding : \A j \in Preceding : d[j].key[2] <= d[i].key[2]}

\* C10: the interpolator returns the field value of a range that contains
\* the position when one exists; otherwise that of a range with the largest
\* end at or before the position; and None exactly when no range contains
\* the position and none ends at or before it.  For {[0,5) -> (0, 1)} it
\* returns 1 for the end at positions 3 and 10.
C10_Interpolation ==
    Returned("interpolateTimeFromDict") =>
        /\ Containing # {} => \E i \in Containing : result = d[i].val[search_type]
        /\ (Containing = {} /\ Preceding # {})
              => \E i \in LastPreceding : result = d[i].val[search_type]
        /\ result = PyNone <=> (Containing = {} /\ Preceding = {})
        /\ (d = ExampleIndex /\ search_type = "end" /\ word_position \in {3, 10})
              => result = Rat(1, 1)

\* C10 witness: no range contains the position, two ranges of different
\* ends and different values precede it, and the value of the later one was
\* returned.
C10_Witness ==
    /\ Returned("interpolateTimeFromDict")
    /\ Containing = {} /\ Len(d) = 2 /\ Preceding = {1, 2}
    /\ d[1].key[2] > d[2].key[2]
    /\ d[1].val[search_type] # d[2].val[search_type]
    /\ result = d[1].val[search_type]

\* The texts of the returned entries, in order.
EntryTexts == [k \in 1..Len(Entries) |-> TextOf(Entries[k])]

\* The call of the end-to-end example.
FoxCall ==
    /\ Returned("getCaptionsWithTime")
    /\ whisper_analysis = QuickBrownFox
    /\ maxCaptionSize = 15

\* Every entry starts where the one before it ends and ends later than it
\* starts.
ContiguousIncreasing(entries) ==
    /\ \A k \in 1..Len(entries) : RatLt(StartOf(entries[k]), EndOf(entries[k]))
    /\ \A k \in 1..(Len(entries) - 1) : EndOf(entries[k]) = StartOf(entries[k + 1])

\* C11 as stated: the example gives exactly the four entries "The quick",
\* "brown fox", "jumps over", "the lazy dog", contiguous and increasing.
C11_ExampleAsStated ==
    FoxCall =>
        /\ EntryTexts = <<JoinWords(SubSeq(FoxWords, 1, 2)), JoinWords(SubSeq(FoxWords, 3, 4)),
                          JoinWords(SubSeq(FoxWords, 5, 6)), JoinWords(SubSeq(FoxWords, 7, 9))>>
        /\ ContiguousIncreasing(Entries)

\* C11, amended: the example gives exactly the five entries "The quick",
\* "brown fox", "jumps over", "the lazy", "dog" (a caption of 8 characters
\* has reached half of 15 and is closed while a word remains), with the
\* contiguous increasing intervals 0-0.6, 0.6-1.2, 1.2-1.8, 1.8-2.4, 2.4-2.7.
C11_Example ==
    FoxCall =>
        /\ EntryTexts = <<JoinWords(SubSeq(FoxWords, 1, 2)), JoinWords(SubSeq(FoxWords, 3, 4)),
                          JoinWords(SubSeq(FoxWords, 5, 6)), JoinWords(SubSeq(FoxWords, 7, 8)),
                          FoxWords[9]>>
        /\ ContiguousIncreasing(Entries)
        /\ StartOf(Entries[1]) = Rat(0, 1)
        /\ [k \in 1..Len(Entries) |-> EndOf(Entries[k])]
              = <<Rat(6, 10), Rat(12, 10), Rat(18, 10), Rat(24, 10), Rat(27, 10)>>

\* C11 witness: the call of the example returned, its last entry ending
\* with the last word, at 2.7 seconds.
C11_Witness ==
    /\ FoxCall /\ ~considerPunctuation
    /\ Entries # <<>>
    /\ EndOf(Entries[Len(Entries)]) = Rat(27, 10)

\* C12: no returned entry has an empty or whitespace-only text, on either
\* path: a chunk whose text is empty after cleaning produces no entry.
C12_NoBlankEntry ==
    Returned("getCaptionsWithTime") =>
        \A k \in 1..Len(Entries) : ~AllWhitespace(TextOf(Entries[k]))

\* C12 witness: a degraded call without punctuation dropped a chunk that
\* cleaning emptied and returned entries for others.
C12_Witness ==
    /\ Returned("getCaptionsWithTime") /\ DegradedPath /\ ~considerPunctuation
    /\ \E i \in 1..Len(ChunksOfCall) : cleanWord(ChunksOfCall[i]) = <<>>
    /\ Entries # <<>>
    /\ Len(Entries) < Len(ChunksOfCall)

\* C13 as stated: every returned sequence is in strictly increasing,
\* non-overlapping time order: of two consecutive entries the first starts
\* before the second starts and ends no later than the second starts.
C13_StrictOrderAsStated ==
    Returned("getCaptionsWithTime") =>
        \A k \in 1..(Len(Entries) - 1) :
            /\ RatLt(StartOf(Entries[k]), StartOf(Entries[k + 1]))
            /\ RatLe(EndOf(Entries[k]), StartOf(Entries[k + 1]))

\* The end of the last segment is a negative number.
NegativeLastEnd ==
    /\ LastSegmentHasEnd /\ LastSegment.v["end"].t = "num"
    /\ LastSegment.v["end"].v < 0

\* C13, amended: unless the last segment's end is negative, of two
\* consecutive returned entries the first ends no later than the second
\* starts, and it starts before the second starts whenever it starts before
\* it ends itself.
C13_StrictOrder ==
    Returned("getCaptionsWithTime") /\ ~NegativeLastEnd =>
        \A k \in 1..(Len(Entries) - 1) :
            /\ RatLe(EndOf(Entries[k]), StartOf(Entries[k + 1]))
            /\ RatLt(StartOf(Entries[k]), EndOf(Entries[k]))
                  => RatLt(StartOf(Entries[k]), StartOf(Entries[k + 1]))

\* C13 witness: a normal-path call returned three entries, the first of
\* positive duration and starting before the second, the second of no
\* duration and starting with the third.
C13_Witness ==
    /\ Returned("getCaptionsWithTime") /\ NormalPath
    /\ Len(Entries) = 3
    /\ RatLt(StartOf(Entries[1]), StartOf(Entries[2]))
    /\ StartOf(Entries[2]) = EndOf(Entries[2])
    /\ StartOf(Entries[2]) = StartOf(Entries[3])

\* The characters an entry may show when punctuation is not preserved.
CleanCharacters == WordChars \cup Whitespace \cup {"-", "\"", "'"}

\* The chunks of the call without the whitespace around them, those that
\* are not blank.
StrippedChunks ==
    SelectSeq([i \in 1..Len(ChunksOfCall) |-> Strip(ChunksOfCall[i])],
              LAMBDA c : c # <<>>)

\* C14: with punctuation preservation off every entry's text has only word
\* characters, whitespace, hyphens and quotation marks; with it on the
\* entries' texts are the chunks' texts, unchanged but for the whitespace
\* stripped at both ends.
C14_EntryCharacters ==
    Returned("getCaptionsWithTime") =>
        /\ ~considerPunctuation =>
              \A k \in 1..Len(Entries) : Range(TextOf(Entries[k])) \subseteq CleanCharacters
        /\ (considerPunctuation /\ NonBlankText) => EntryTexts = StrippedChunks

\* C14 witness: without punctuation preservation an entry was returned for
\* a chunk that lost some of its characters, but not all.
C14_Witness ==
    /\ Returned("getCaptionsWithTime") /\ NonBlankText /\ ~considerPunctuation
    /\ Entries # <<>>
    /\ \E i \in 1..Len(ChunksOfCall) :
          /\ Len(cleanWord(ChunksOfCall[i])) \in 1..(Len(ChunksOfCall[i]) - 1)
          /\ \E k \in 1..Len(Entries) : TextOf(Entries[k]) = cleanWord(ChunksOfCall[i])

\* C15: cleanWord is idempotent: what it returns for a string it returned
\* is what it returned for the string, cleanWord(cleanWord(s)) =
\* cleanWord(s).
C15_CleanWordIdempotent ==
    (fn = "cleanWord" /\ pc = "again") => result = cleanWord(raw_word)

\* C15 witness: cleanWord was applied twice to a string of which it removed
\* some characters and kept others.
C15_Witness ==
    /\ fn = "cleanWord" /\ pc = "again"
    /\ result # raw_word
    /\ result # <<>>

\* The words of each chunk splitWordsBySize returned.
WordsOfChunks == [k \in 1..Len(result) |-> Split(result[k])]

\* C16: for a list of non-empty words the call returns (with no more chunks
\* than words); every chunk is non-empty; the words of the chunks, in
\* order, are the words of the input, none split, dropped, duplicated or
\* moved; a word longer than maxSize is a chunk on its own; and the chunks
\* joined with single spaces are the input words joined with single spaces.
C16_WordsPreserved ==
    Returned("splitWordsBySize") =>
        /\ Len(result) <= Len(words)
        /\ \A k \in 1..Len(result) : result[k] # <<>>
        /\ Flatten(WordsOfChunks) = words
        /\ \A k \in 1..Len(result) :
              (\E i \in 1..Len(WordsOfChunks[k]) :
                    Len(WordsOfChunks[k][i]) > maxCaptionSize)
                  => Len(WordsOfChunks[k]) = 1
        /\ JoinWords(result) = JoinWords(words)

\* C16 witness: four words, one of them longer than maxSize, came back as
\* fewer chunks, one of them that word.
C16_Witness ==
    /\ Returned("splitWordsBySize")
    /\ Len(words) = 4
    /\ Len(result) \in 2..3
    /\ \E k \in 1..Len(result) :
          Len(WordsOfChunks[k]) = 1 /\ Len(result[k]) > maxCaptionSize

\* A word entry the index builder passes over: a mapping without text, with
\* an empty or whitespace-only text, or without its start or its end key.
IsSkippedWord(w) ==
    /\ w.t = "dict"
    /\ \/ "text" \notin DOMAIN w.v /\ "word" \notin DOMAIN w.v
       \/ ("text" \in DOMAIN w.v \/ "word" \in DOMAIN w.v) /\ TextOfWord(w) = <<>>
       \/ "start" \notin DOMAIN w.v
       \/ "end" \notin DOMAIN w.v

\* A segment without its skipped words; a segment without words.
WithoutSkippedWords(sg) ==
    IF "words" \in DOMAIN sg.v
    THEN PyDict([sg.v EXCEPT !["words"] =
                    PyList(SelectSeq(sg.v["words"].v, LAMBDA w : ~IsSkippedWord(w)))])
    ELSE sg

HasNoWords(sg) == "words" \notin DOMAIN sg.v \/ sg.v["words"].v = <<>>

\* The transcription of the call with those words and segments removed.
ReducedTranscription ==
    PyDict([whisper_analysis.v EXCEPT !["segments"] =
        PyList(SelectSeq(
            [i \in 1..Len(SegmentList) |-> WithoutSkippedWords(SegmentList[i])],
            LAMBDA sg : ~HasNoWords(sg)))])

\* C17: segments without words, words of blank text and words missing
\* start or end record no range and leave the cursor where it is: the index
\* is the index of the transcription without them; and it is empty when
\* every word is one of these.
C17_SkippedLeaveNoTrace ==
    (Returned("getTimestampMapping") /\ "segments" \in DOMAIN whisper_analysis.v) =>
        /\ result = getTimestampMapping(ReducedTranscription)
        /\ (\A k \in 1..Len(AllWords) : IsSkippedWord(AllWords[k])) => result = <<>>

\* C17 witness: an index was built from a transcription with a skipped word
\* ahead of a recorded one and with a segment without words.
C17_Witness ==
    /\ Returned("getTimestampMapping") /\ "segments" \in DOMAIN whisper_analysis.v
    /\ result # <<>>
    /\ \E i \in 1..Len(SegmentList) : HasNoWords(SegmentList[i])
    /\ IsSkippedWord(AllWords[1])

\* A malformed word entry: no mapping, or a mapping whose start or end is
\* no number.
IsMalformedWord(w) ==
    \/ w.t # "dict"
    \/ /\ "start" \in DOMAIN w.v /\ "end" \in DOMAIN w.v
       /\ w.v["start"].t # "num" \/ w.v["end"].t # "num"

\* The transcription of the call without its malformed word entries.
WithoutMalformedWords ==
    PyDict([whisper_analysis.v EXCEPT !["segments"] =
        PyList([i \in 1..Len(SegmentList) |->
            IF "words" \in DOMAIN SegmentList[i].v
            THEN PyDict([SegmentList[i].v EXCEPT !["words"] =
                     PyList(SelectSeq(SegmentList[i].v["words"].v,
                                      LAMBDA w : ~IsMalformedWord(w)))])
            ELSE SegmentList[i]])])

\* C18: when malformed word entries stand among well-formed timestamped
\* words, getTimestampMapping skips the malformed entries only: the index
\* is the index of the transcription without them, with the ranges of all
\* the well-formed words.
C18_MalformedSkipped ==
    /\ Returned("getTimestampMapping") /\ "segments" \in DOMAIN whisper_analysis.v
    /\ \E k \in 1..Len(AllWords) : ~IsMalformedWord(AllWords[k]) /\ ~IsSkippedWord(AllWords[k])
    => result = getTimestampMapping(WithoutMalformedWords)

\* C19: getCaptionsWithTime never calls the interpolator with an empty
\* index: when the index it built is empty it returns the estimated
\* entries without a call of interpolateTimeFromDict.
C19_NoLookupInEmptyIndex ==
    Returned("getCaptionsWithTime") =>
        /\ \A k \in 1..Len(interpolator_calls) : interpolator_calls[k].index # <<>>
        /\ DegradedPath => interpolator_calls = <<>>

\* C19 witness: a call whose words gave no index returned estimated entries
\* for two chunks or more.
C19_Witness ==
    /\ Returned("getCaptionsWithTime") /\ DegradedPath
    /\ AllWords # <<>>
    /\ Len(Entries) >= 2
    /\ interpolator_calls = <<>>

\* The audio file does not exist, or exists with size 0.
AudioMissingOrEmpty == ~env.exists \/ env.getsize = Ok(0)

\* C20: generate_timed_captions never raises, and with an audio file that
\* does not exist or has size 0 it returns the empty sequence, the speech
\* model never loaded and no transcription method tried.
C20_MissingAudio ==
    fn = "generate_timed_captions" =>
        /\ pc = "done" => ~result.raised
        /\ AudioMissingOrEmpty =>
              /\ events = <<>>
              /\ pc \in {"call", "done"}
              /\ pc = "done" => result = Returns(<<>>)

\* C20 witness: the call returned for an existing file of size 0, in an
\* environment where the model would load and the first method would give
\* a transcription.
C20_Witness ==
    /\ fn = "generate_timed_captions" /\ pc = "done"
    /\ env.exists /\ env.getsize = Ok(0)
    /\ ~env.load_model.exc
    /\ ~env.transcribe[1].exc /\ Truthy(env.transcribe[1].val)
    /\ result = Returns(<<>>)

\* The k-th chunk without its last word.
WithoutLastWord(k) ==
    JoinWords(SubSeq(WordsOfChunks[k], 1, Len(WordsOfChunks[k]) - 1))

\* C21: in every chunk splitWordsBySize returns with three or more words,
\* the chunk without its last word is shorter than maxSize / 2: once an
\* append has brought a chunk to maxSize / 2 with words remaining, the chunk
\* is closed, so at most one word is added to a chunk that has reached
\* maxSize / 2.
C21_ClosedAtHalf ==
    Returned("splitWordsBySize") =>
        \A k \in 1..Len(result) :
            Len(WordsOfChunks[k]) >= 3 => 2 * Len(WithoutLastWord(k)) < maxCaptionSize

\* C21 witness: a chunk of three words was closed at half the limit with
\* room left for the word that follows it.
C21_Witness ==
    /\ Returned("splitWordsBySize")
    /\ Len(result) >= 2
    /\ Len(WordsOfChunks[1]) = 3
    /\ 2 * Len(result[1]) >= maxCaptionSize
    /\ Len(result[1]) + 1 + Len(WordsOfChunks[2][1]) <= maxCaptionSize

\* The k-th chunk was closed by the break of line 168: an append brought it
\* to maxSize / 2.
ClosedAtHalf(k) == Len(WordsOfChunks[k]) >= 2 /\ 2 * Len(result[k]) >= maxCaptionSize

\* The k-th chunk was closed by the loop test of line 165: the first word of
\* the next chunk would not fit.
NextWordDoesNotFit(k) ==
    Len(result[k]) + 1 + Len(WordsOfChunks[k + 1][1]) > maxCaptionSize

\* C22: every chunk splitWordsBySize returns other than the last has at
\* least two words and length >= maxSize / 2, or is followed by a word that
\* would not fit in it.
C22_ClosingReasons ==
    Returned("splitWordsBySize") =>
        \A k \in 1..(Len(result) - 1) : ClosedAtHalf(k) \/ NextWordDoesNotFit(k)

\* C22 witness: one call closed a chunk at half the limit although the next
\* word would fit, and another short of half because the next word would not.
C22_Witness ==
    /\ Returned("splitWordsBySize")
    /\ \E j, k \in 1..(Len(result) - 1) :
          /\ ClosedAtHalf(j) /\ ~NextWordDoesNotFit(j)
          /\ ~ClosedAtHalf(k) /\ NextWordDoesNotFit(k)

\* A usable word: a mapping with both timestamps and a text that holds
\* characters and, once stripped, no whitespace.
IsUsableWord(w) ==
    /\ IsTimed(w)
    /\ \E key \in {"text", "word"} : key \in DOMAIN w.v /\ w.v[key].t = "str"
    /\ TextOfWord(w) # <<>>
    /\ \A i \in 1..Len(TextOfWord(w)) : TextOfWord(w)[i] \notin Whitespace

UsableWordsOfCall == SelectSeq(AllWords, IsUsableWord)

\* The text is the usable words' stripped texts joined by single spaces, and
\* every other word entry is one the index builder passes over.
TextMatchesWords ==
    /\ NonBlankText
    /\ UsableWordsOfCall # <<>>
    /\ \A k \in 1..Len(AllWords) :
          \/ IsUsableWord(AllWords[k])
          \/ AllWords[k].t # "dict"
          \/ IsSkippedWord(AllWords[k])
    /\ whisper_analysis.v["text"].v =
          JoinWords([k \in 1..Len(UsableWordsOfCall) |->
                        TextOfWord(UsableWordsOfCall[k])])

\* The number of words in the first k chunks: the rank of the last word of
\* the k-th chunk among the usable words.
RECURSIVE WordCount(_)
WordCount(k) ==
    IF k = 0 THEN 0 ELSE WordCount(k - 1) + Len(Split(ChunksOfCall[k]))

\* C23: when the text is the usable words' stripped texts joined by single
\* spaces, the end position computed for each chunk is the end offset of the
\* index range of the chunk's last word, and every emitted entry ends at
\* that word's end timestamp.
C23_CursorAlignment ==
    Returned("getCaptionsWithTime") /\ TextMatchesWords =>
        /\ Len(interpolator_calls) = Len(ChunksOfCall)
        /\ \A k \in 1..Len(ChunksOfCall) :
              interpolator_calls[k].position = IndexOfCall[WordCount(k)].key[2]
        /\ Len(Entries) = Len(EntryChunks)
        /\ \A j \in 1..Len(Entries) :
              EndOf(Entries[j]) =
                  Rat(UsableWordsOfCall[WordCount(EntryChunks[j])].v["end"].v, 1)

\* C23 witness: a call on such a transcription, one entry of it skipped by
\* the index builder, with a chunk of several words and a chunk that
\* yielded no entry, returned entries that end at different times.
C23_Witness ==
    /\ Returned("getCaptionsWithTime") /\ TextMatchesWords
    /\ Len(UsableWordsOfCall) < Len(AllWords)
    /\ \E k \in 1..Len(ChunksOfCall) : Len(Split(ChunksOfCall[k])) >= 2
    /\ Len(Entries) < Len(ChunksOfCall)
    /\ \E i, j \in 1..Len(Entries) : EndOf(Entries[i]) # EndOf(Entries[j])

\* The end timestamps the index of the call holds.
IndexedEnds == {IndexOfCall[i].val.end : i \in 1..Len(IndexOfCall)}

\* C24: on the normal path the interpolator returns a value for the end
\* position of every chunk, so no end time is synthesised from the chunk's
\* length, and every entry ends at the end timestamp of an indexed word.
C24_NoSyntheticEnd ==
    Returned("getCaptionsWithTime") /\ NormalPath =>
        /\ Len(interpolator_calls) = Len(ChunksOfCall)
        /\ \A k \in 1..Len(interpolator_calls) :
              /\ interpolator_calls[k].index = IndexOfCall
              /\ interpolateTimeFromDict(interpolator_calls[k].position,
                                         IndexOfCall, "end") \in IndexedEnds
        /\ \A j \in 1..Len(Entries) : EndOf(Entries[j]) \in IndexedEnds

\* C24 witness: a normal-path call returned two entries or more after
\* looking up one position inside a range and one past the last range.
C24_Witness ==
    /\ Returned("getCaptionsWithTime") /\ NormalPath
    /\ Len(Entries) >= 2
    /\ \E k \in 1..Len(interpolator_calls) :
          \E i \in 1..Len(IndexOfCall) :
              /\ IndexOfCall[i].key[1] <= interpolator_calls[k].position
              /\ interpolator_calls[k].position < IndexOfCall[i].key[2]
    /\ \E k \in 1..Len(interpolator_calls) :
          \A i \in 1..Len(IndexOfCall) :
              IndexOfCall[i].key[2] < interpolator_calls[k].position

\* A word that ends a sentence is followed by another word in the string.
SpansSentenceBoundary(chars) ==
    \E i \in 1..(Len(Split(chars)) - 1) :
        Split(chars)[i][Len(Split(chars)[i])] \in SentenceEnd

\* C25: with punctuation-aware mode on, no chunk of the call, and so no
\* entry it returns, holds a word ending in '.', '!' or '?' followed by
\* another word.
C25_NoChunkSpansSentence ==
    Returned("getCaptionsWithTime") /\ NonBlankText /\ considerPunctuation =>
        /\ \A k \in 1..Len(ChunksOfCall) : ~SpansSentenceBoundary(ChunksOfCall[k])
        /\ \A j \in 1..Len(Entries) : ~SpansSentenceBoundary(TextOf(Entries[j]))

\* The order the claim names.
FixedOrder ==
    <<"whisper_timestamped_conservative", "whisper_timestamped_basic",
      "fallback_regular_whisper", "simple_timing">>

\* The k-th method, in this environment, neither raises nor returns an
\* empty result.
GivesResult(k) ==
    /\ ~MethodResult(k, env.transcribe[k]).exc
    /\ Truthy(MethodResult(k, env.transcribe[k]).val)

\* The file passes its checks and the model loads: the method loop is
\* reached.
ReachesMethods ==
    env.exists /\ ~env.getsize.exc /\ env.getsize.val > 0 /\ ~env.load_model.exc

\* The calls of getCaptionsWithTime so far.
CaptionCalls == SelectSeq(events, LAMBDA ev : ev = "getCaptionsWithTime")

\* C26: the methods are tried in the fixed order, each only after every
\* earlier one raised or returned an empty result; the first non-empty
\* result is passed once to getCaptionsWithTime and what that returns is
\* returned, empty or not, no later method tried; when every method fails
\* the empty sequence is returned.
C26_MethodOrder ==
    fn = "generate_timed_captions" =>
        /\ Len(MethodsTried) <= Len(FixedOrder)
        /\ \A k \in 1..Len(MethodsTried) :
              /\ MethodsTried[k] = FixedOrder[k]
              /\ \A j \in 1..(k - 1) : ~GivesResult(j)
        /\ Len(CaptionCalls) <= 1
        /\ CaptionCalls # <<>> =>
              /\ pc = "done"
              /\ events[Len(events)] = "getCaptionsWithTime"
              /\ events[Len(events) - 1] = FixedOrder[Len(MethodsTried)]
              /\ GivesResult(Len(MethodsTried))
              /\ result = getCaptionsWithTime(
                              MethodResult(Len(MethodsTried),
                                           env.transcribe[Len(MethodsTried)]).val,
                              DefaultCaptionSize, FALSE)
        /\ (pc = "done" /\ ReachesMethods) =>
              IF \E k \in 1..Len(FixedOrder) : GivesResult(k)
              THEN CaptionCalls # <<>>
              ELSE /\ MethodsTried = FixedOrder
                   /\ CaptionCalls = <<>>
                   /\ result = Returns(<<>>)

\* C26 witness: the first method raised, the second returned an empty
\* result, the third a result whose captions are empty, and these were
\* returned although the fourth method would have given a result.
C26_Witness ==
    /\ fn = "generate_timed_captions" /\ pc = "done"
    /\ env.transcribe[1].exc
    /\ ~env.transcribe[2].exc /\ ~GivesResult(2)
    /\ GivesResult(4)
    /\ events = <<"load_model", FixedOrder[1], FixedOrder[2], FixedOrder[3],
                  "getCaptionsWithTime">>
    /\ result = Returns(<<>>)

\* ------------------------------------------ claims on robust_audio_generation
\* The first attempt, of the max_retries allowed, at which generate_audio
\* completes; 0 when there is none.
FirstCompleted ==
    IF \E k \in 1..max_retries : env.generate_audio[k] = "completes"
    THEN CHOOSE k \in 1..max_retries :
            /\ env.generate_audio[k] = "completes"
            /\ \A j \in 1..(k - 1) : env.generate_audio[j] # "completes"
    ELSE 0

\* The calls the claim describes, in order: the attempts up to the first
\* that completes, or max_retries of them, and a wait of 3 * k seconds after
\* the k-th when it failed and was not the last allowed.
ExpectedCalls ==
    Flatten([k \in 1..(IF FirstCompleted > 0 THEN FirstCompleted
                        ELSE max_retries) |->
        <<AudioCall(k)>>
            \o (IF env.generate_audio[k] # "completes" /\ k < max_retries
                THEN <<SleepCall(3 * k)>> ELSE <<>>)])

LastCaptionEnd == captions_timed[Len(captions_timed)][1][2]

\* A list of segments starts at 0, each segment starts where the one before
\* ends, and none lasts more than 3 seconds.
ContiguousFromZero(segs) ==
    /\ segs[1][1][1] = Rat(0, 1)
    /\ \A k \in 1..(Len(segs) - 1) : segs[k + 1][1][1] = segs[k][1][2]
    /\ \A k \in 1..Len(segs) :
          RatLe(segs[k][1][2], RatAdd(segs[k][1][1], Rat(3, 1)))

\* C29 as stated: for non-empty captions create_fallback_search_terms
\* returns a non-empty list of segments that starts at 0, is contiguous, has
\* no segment longer than 3 seconds, ends exactly at the last caption's end
\* time, and gives every segment exactly three keywords.
C29_FallbackSegmentsAsStated ==
    Returned("create_fallback_search_terms") /\ captions_timed # <<>> =>
        /\ result # <<>>
        /\ ContiguousFromZero(result)
        /\ result[Len(result)][1][2] = LastCaptionEnd
        /\ \A k \in 1..Len(result) : Len(result[k][2]) = 3

\* C29, amended: for non-empty captions whose last caption ends after 0 the
\* call returns such a list; when the last caption ends at 0 or before, it
\* returns the empty list.
C29_FallbackSegments ==
    Returned("create_fallback_search_terms") /\ captions_timed # <<>> =>
        IF RatLt(Rat(0, 1), LastCaptionEnd)
        THEN /\ result # <<>>
             /\ ContiguousFromZero(result)
             /\ result[Len(result)][1][2] = LastCaptionEnd
             /\ \A k \in 1..Len(result) : Len(result[k][2]) = 3
        ELSE result = <<>>

\* C29 witness: captions that end at 7 seconds gave three segments, the last
\* of one second, one of them with a word of the script beside a generic
\* term.
C29_Witness ==
    /\ Returned("create_fallback_search_terms")
    /\ captions_timed # <<>>
    /\ LastCaptionEnd = Rat(7, 1)
    /\ Len(result) = 3
    /\ result[3][1] = <<Rat(6, 1), Rat(7, 1)>>
    /\ \E k \in 1..Len(result) :
          /\ result[k][2][1] \in Range(FindKeywords(script))
          /\ result[k][2][3] \in Range(generic_terms)

\* The content of the k-th response, as strategy i parsed it, validated.
Validated(k, i) == validate_and_fix_search_terms(env.responses[k].val[i].val)

\* The claim's condition on what strategy i makes of the k-th response: a
\* list that is non-empty after validation and whose last segment ends
\* within 2.0 seconds of the last caption's end.
Yields(k, i) ==
    /\ ~env.responses[k].exc
    /\ ~env.responses[k].val[i].exc
    /\ env.responses[k].val[i].val.t = "list"
    /\ Validated(k, i) # <<>>
    /\ LET last_end == Validated(k, i)[Len(Validated(k, i))][1][2]
           diff == last_end.n * LastCaptionEnd.d - LastCaptionEnd.n * last_end.d
       IN /\ diff <= 2 * last_end.d * LastCaptionEnd.d
          /\ 0 - diff <= 2 * last_end.d * LastCaptionEnd.d

\* The attempts, of the max_retries allowed, that yield such a list.
YieldingAttempts == {k \in 1..max_retries : \E i \in 1..NumStrategies : Yields(k, i)}

\* C28: getVideoSearchQueriesTimed always returns.  With empty captions it
\* returns the fallback terms and never calls the language model.
\* Otherwise it calls the model at most max_retries times; it returns a
\* list derived from a response only if the list is non-empty after
\* validation and its last segment ends within 2.0 seconds of the last
\* caption's end (the list of the first strategy of the first attempt that
\* gives one); and it returns the fallback terms when no attempt yields
\* such a list.
C28_QueriesOrFallback ==
    fn = "getVideoSearchQueriesTimed" =>
        /\ Len(events) <= max_retries
        /\ \A k \in 1..Len(events) : events[k] = "call_OpenAI"
        /\ captions_timed = <<>> =>
              /\ events = <<>>
              /\ pc = "done" => result = NoCaptionTerms
        /\ (pc = "done" /\ captions_timed # <<>>) =>
              IF YieldingAttempts # {}
              THEN /\ Len(events) = FirstOf(YieldingAttempts)
                   /\ \E i \in 1..NumStrategies :
                         /\ Yields(Len(events), i)
                         /\ \A j \in 1..(i - 1) : ~Yields(Len(events), j)
                         /\ result = Validated(Len(events), i)
              ELSE /\ Len(events) = max_retries
                   /\ result = create_fallback_search_terms(env.unique_words,
                                                            captions_timed)

\* C28 witness: of three attempts the first raised, the second gave no
\* search term, and the third gave at the fourth strategy search terms that
\* end 5 seconds before the captions and at the fifth the ones returned,
\* which end 2.0 seconds before the captions.
C28_Witness ==
    /\ fn = "getVideoSearchQueriesTimed" /\ pc = "done"
    /\ max_retries = 3
    /\ Len(events) = 3
    /\ env.responses[1].exc
    /\ ~env.responses[2].exc /\ env.responses[2].val[1] = Ok(NoSearchTerms)
    /\ ~env.responses[3].exc /\ env.responses[3].val[4] = Ok(EarlySearchTerms)
    /\ LastCaptionEnd = Rat(7, 1)
    /\ result = << <<<<Rat(0, 1), Rat(2, 1)>>, << <<"c", "a", "t">> >> >>,
                   <<<<Rat(2, 1), Rat(5, 1)>>, << <<"d", "o", "g">> >> >> >>

\* ---------------------------------------------------------------------- C30
\* Each segment starts where the previous one ends.
Contiguous(segments) ==
    \A k \in 2..Len(segments) : segments[k][1][1] = segments[k - 1][1][2]

\* The list runs from the first start of the input to its last end.
SpansSameRange(merged, segments) ==
    /\ merged # <<>>
    /\ merged[1][1][1] = segments[1][1][1]
    /\ merged[Len(merged)][1][2] = segments[Len(segments)][1][2]

\* No segment without a url follows a segment with one.
RunsAbsorbed(merged) ==
    \A k \in 2..Len(merged) :
        merged[k - 1][2] # NoUrl => merged[k][2] # NoUrl

\* C30: for a contiguous list of segments, merge_empty_intervals returns a
\* contiguous list that runs from the first start of the input to its last
\* end, in which every run of url-less segments that follows a segment with
\* a url is absorbed into that segment.
C30_MergedContiguous ==
    (/\ fn = "merge_empty_intervals"
     /\ pc = "done"
     /\ video_segments # <<>>
     /\ Contiguous(video_segments))
    => /\ Contiguous(result)
       /\ SpansSameRange(result, video_segments)
       /\ RunsAbsorbed(result)

====
